---- MODULE Spec2Model ----
(***************************************************************************)
(* Model of the in-memory back-end of the storage catalog                  *)
(* (data/catalog/src/in_memory.rs): InMemoryTableHandle,                   *)
(* InMemorySchemaHandle and InMemoryCatalogHandle.                         *)
(*                                                                         *)
(* Three specifications share the definitions of the operations:           *)
(*   Spec        one InMemoryTableHandle driven by a sequential caller;    *)
(*   SpecCatalog an InMemoryCatalogHandle (schemas -> tables -> rows)      *)
(*               driven by a sequential caller;                            *)
(*   SpecConc    one InMemoryTableHandle shared by threads, each step one  *)
(*               lock operation, atomic instruction or map operation.      *)
(*                                                                         *)
(* The crate is compiled with or without debug assertions.  The body of    *)
(* debug_assert!(..) is evaluated only when they are on, so the build is   *)
(* part of the state (debug_assertions) and both builds are explored.      *)
(***************************************************************************)
EXTENDS Integers, Sequences, FiniteSets, TLC

VARIABLES
    debug_assertions,   \* cfg!(debug_assertions) of the build under test
    table,              \* Spec, SpecConc: the InMemoryTableHandle
    ret,                \* Spec, SpecCatalog: what the last call returned
    inserted,           \* Spec, history: values passed to insert, while no
                        \*   update or delete has run on the table
    only_inserts,       \* Spec, history: no update or delete has run yet
    issued,             \* Spec, history: the keys insert has stored rows under
    catalog,            \* SpecCatalog: the InMemoryCatalogHandle
    rwlock,             \* SpecConc: who holds the RwLock of table.records
    threads,            \* SpecConc: each thread's call in progress
    cursor,             \* SpecConc: the Cursor each thread's last select returned
    stored_pairs,       \* SpecConc, history: the <<key, value>> pairs the insert
                        \*   calls passed to BTreeMap::insert, in order
    returned,           \* SpecConc, history: sum of the counts insert returned
                        \*   (both kept while only_inserts, and cleared after)
    ordinals,           \* SpecOrd, history: <<thread, ordinal>> of each call of
                        \*   next_column_ord, in the order of the fetch_add
    sql_types,          \* SpecTypes: the two SqlType values under conversion
    converted,          \* SpecTypes: what the last conversion returned
    disk,               \* SpecPersistent: the key-value store under the path
    data_manager,       \* SpecPersistent: the open DatabaseHandle, if any
    restart,            \* SpecPersistent, history: what the handle answered
                        \*   when it was dropped, and whether it was opened
                        \*   again since with nothing executed after
    analysis,           \* SpecAnalyzer: the last statement analysed, the
                        \*   catalog it was analysed against and the result
    scalar_op,          \* SpecEval: the expression tree under evaluation
    eval_rows,          \* SpecEval: the two rows it is evaluated against
    evaluated,          \* SpecEval: for each of the two rows, what eval
                        \*   returned and what it sent to the sender, if it
                        \*   was called
    session,            \* SpecEngine: the prepared statements and the portals
                        \*   of the session
    metadata,           \* SpecEngine: the catalog and the storage behind the
                        \*   engine
    handled             \* SpecEngine: the last command QueryEngine::execute
                        \*   handled, what was sent to the sender while it did
                        \*   (executed: by the executor) and what it returned
                        \* SpecCommands: the last command of the executor that
                        \*   ran, what it sent and what the data manager
                        \*   answered to its last call

vars == <<debug_assertions, table, ret, inserted, only_inserts, issued, catalog,
          rwlock, threads, cursor, stored_pairs, returned, ordinals,
          sql_types, converted, disk, data_manager, restart, analysis,
          scalar_op, eval_rows, evaluated, session, metadata, handled>>

seqVars == <<ret, inserted, issued, catalog>>
concVars == <<rwlock, threads, cursor, stored_pairs, returned>>
\* the variables of the specifications other than Spec, SpecCatalog, SpecConc
typesVars == <<sql_types, converted>>
persistentVars == <<disk, data_manager, restart>>
analyzerVars == <<analysis>>
evalVars == <<scalar_op, eval_rows, evaluated>>
engineVars == <<session, metadata, handled>>
restVars == <<ordinals, typesVars, persistentVars, analyzerVars, evalVars, engineVars>>

(***************************************************************************)
(* Bounds of the model.                                                    *)
(***************************************************************************)
\* insert is not called once record_ids would pass this value
MaxRecordId == 2
\* longest vector passed to insert, update or delete in Spec
MaxBatch == 2
\* the u64 data packed into values are 1..MaxDatum
MaxDatum == 2
\* in SpecCatalog insert is not called once the record_ids of the tables of
\* the catalog would add up to more than this value
CatalogMaxRecordId == 1
\* the lengths of Char and VarChar are 0..MaxCharsLen, and the default 255
MaxCharsLen == 2
\* SpecOrd: next_column_ord is not called more often than this
MaxColumnOrd == 3
MaxTableId == 2
\* SpecConc: the number of threads and the calls each of them makes
NumThreads == 2
MaxCalls == 1

(***************************************************************************)
(* Binary: the packed tuple of Datums, a byte string ordered byte-wise.    *)
(***************************************************************************)
RECURSIVE ShiftRightBytes(_, _)
ShiftRightBytes(n, k) == IF k = 0 THEN n ELSE ShiftRightBytes(n \div 256, k - 1)

\* Datum::from_u64(n) as its 8 big-endian bytes
U64Bytes(n) == [i \in 1..8 |-> ShiftRightBytes(n, 8 - i) % 256]

RECURSIVE PackFrom(_, _)
PackFrom(datums, i) ==
    IF i > Len(datums) THEN <<>>
    ELSE <<8>> \o U64Bytes(datums[i]) \o PackFrom(datums, i + 1)

\* Binary::pack(&[Datum]): every field framed by its length
Pack(datums) == PackFrom(datums, 1)

RECURSIVE BinaryLessFrom(_, _, _)
BinaryLessFrom(a, b, i) ==
    IF i > Len(a) THEN i <= Len(b)
    ELSE IF i > Len(b) THEN FALSE
    ELSE IF a[i] # b[i] THEN a[i] < b[i]
    ELSE BinaryLessFrom(a, b, i + 1)

\* Ord for Binary: the order BTreeMap<Binary, Binary> iterates in
BinaryLess(a, b) == BinaryLessFrom(a, b, 1)

(***************************************************************************)
(* BTreeMap<Binary, Binary> as a function from the keys it holds.          *)
(***************************************************************************)
EmptyMap == [k \in {} |-> <<>>]

\* BTreeMap::insert: stores value under key, replacing what was there
MapInsert(m, key, value) ==
    [k \in DOMAIN m \cup {key} |-> IF k = key THEN value ELSE m[k]]

\* BTreeMap::remove
MapRemove(m, key) == [k \in DOMAIN m \ {key} |-> m[k]]

RECURSIVE KeysInOrder(_)
KeysInOrder(keys) ==
    IF keys = {} THEN <<>>
    ELSE LET first == CHOOSE k \in keys :
                          \A o \in keys : o = k \/ BinaryLess(k, o)
         IN <<first>> \o KeysInOrder(keys \ {first})

\* BTreeMap::iter: the (key, value) pairs in key order
MapIter(m) ==
    LET keys == KeysInOrder(DOMAIN m)
    IN [i \in 1..Len(keys) |-> <<keys[i], m[keys[i]]>>]

(***************************************************************************)
(* InMemoryTableHandle.  poisoned is the poison flag of the RwLock: a      *)
(* thread that panics while it holds the write guard sets it, and          *)
(* read().unwrap() / write().unwrap() panic from then on.                  *)
(***************************************************************************)
InMemoryTableHandle ==
    [records |-> EmptyMap, record_ids |-> 0, column_ords |-> 0, poisoned |-> FALSE]

\* what a call on a table hands back: the table after it, and either the
\* value returned (a count n or the rows of a Cursor) or the fact that the
\* call panicked; stored lists the keys the call passed to BTreeMap::insert
Returned(tbl, n, rows, stored) ==
    [tbl |-> tbl, panicked |-> FALSE, n |-> n, rows |-> rows, stored |-> stored]
Panicked(tbl, stored) ==
    [tbl |-> tbl, panicked |-> TRUE, n |-> 0, rows |-> <<>>, stored |-> stored]

\* whether the argument of debug_assert! is evaluated in this build
DebugAssertRuns(dbg) == dbg

\* select: clone every pair, in key order, into the Cursor
select(tbl) ==
    IF tbl.poisoned THEN Panicked(tbl, <<>>)
    ELSE Returned(tbl, 0, MapIter(tbl.records), <<>>)

\* mutant of FetchAddRecordId: the number of rows as the next record id
FetchAddRecordIdFromLen(tbl) == Cardinality(DOMAIN tbl.records)

\* record_ids.fetch_add(1, SeqCst): the value before the addition
FetchAddRecordId(tbl) == tbl.record_ids

\* one iteration of the loop of insert; ok is FALSE when the assertion fails
InsertOne(tbl, value, dbg) ==
    LET record_id == FetchAddRecordId(tbl)
        key == Pack(<<record_id>>)
        counted == [tbl EXCEPT !.record_ids = tbl.record_ids + 1]
    IN IF DebugAssertRuns(dbg)
       THEN [tbl |-> [counted EXCEPT !.records = MapInsert(tbl.records, key, value)],
             ok |-> key \notin DOMAIN tbl.records, stored |-> <<key>>]
       ELSE [tbl |-> counted, ok |-> TRUE, stored |-> <<>>]

RECURSIVE InsertLoop(_, _, _, _, _)
InsertLoop(tbl, data, i, stored, dbg) ==
    IF i > Len(data) THEN Returned(tbl, Len(data), <<>>, stored)
    ELSE LET step == InsertOne(tbl, data[i], dbg)
         IN IF step.ok
            THEN InsertLoop(step.tbl, data, i + 1, stored \o step.stored, dbg)
            ELSE Panicked([step.tbl EXCEPT !.poisoned = TRUE], stored \o step.stored)

insert(tbl, data, dbg) ==
    IF tbl.poisoned THEN Panicked(tbl, <<>>) ELSE InsertLoop(tbl, data, 1, <<>>, dbg)

\* mutant of UpdateOne: the value of a present key is kept
UpdateOneKeepsOld(tbl, pair, dbg) ==
    IF DebugAssertRuns(dbg) /\ pair[1] \notin DOMAIN tbl.records
    THEN [tbl |-> [tbl EXCEPT !.records = MapInsert(tbl.records, pair[1], pair[2])],
          ok |-> FALSE]
    ELSE [tbl |-> tbl, ok |-> TRUE]

\* one iteration of the loop of update; pair = <<key, value>>
UpdateOne(tbl, pair, dbg) ==
    IF DebugAssertRuns(dbg)
    THEN [tbl |-> [tbl EXCEPT !.records = MapInsert(tbl.records, pair[1], pair[2])],
          ok |-> pair[1] \in DOMAIN tbl.records]
    ELSE [tbl |-> tbl, ok |-> TRUE]

RECURSIVE UpdateLoop(_, _, _, _)
UpdateLoop(tbl, data, i, dbg) ==
    IF i > Len(data) THEN Returned(tbl, Len(data), <<>>, <<>>)
    ELSE LET step == UpdateOne(tbl, data[i], dbg)
         IN IF step.ok THEN UpdateLoop(step.tbl, data, i + 1, dbg)
            ELSE Panicked([step.tbl EXCEPT !.poisoned = TRUE], <<>>)

update(tbl, data, dbg) ==
    IF tbl.poisoned THEN Panicked(tbl, <<>>) ELSE UpdateLoop(tbl, data, 1, dbg)

\* data.contains(key)
Contains(data, key) == \E i \in 1..Len(data) : data[i] = key

\* mutant of DeleteKeys: every key of the table up to the largest one listed
DeleteKeysUpTo(tbl, data) ==
    KeysInOrder({k \in DOMAIN tbl.records :
                    \E i \in 1..Len(data) : k = data[i] \/ BinaryLess(k, data[i])})

\* rw.iter().filter(data.contains(key)): the keys of the table that data
\* holds, in key order
DeleteKeys(tbl, data) ==
    KeysInOrder({k \in DOMAIN tbl.records : Contains(data, k)})

\* one iteration of the loop of delete
DeleteOne(tbl, key, dbg) ==
    IF DebugAssertRuns(dbg)
    THEN [tbl |-> [tbl EXCEPT !.records = MapRemove(tbl.records, key)],
          ok |-> key \in DOMAIN tbl.records]
    ELSE [tbl |-> tbl, ok |-> TRUE]

RECURSIVE DeleteLoop(_, _, _, _, _)
DeleteLoop(tbl, keys, i, size, dbg) ==
    IF i > Len(keys) THEN Returned(tbl, size, <<>>, <<>>)
    ELSE LET step == DeleteOne(tbl, keys[i], dbg)
         IN IF step.ok THEN DeleteLoop(step.tbl, keys, i + 1, size + 1, dbg)
            ELSE Panicked([step.tbl EXCEPT !.poisoned = TRUE], <<>>)

delete(tbl, data, dbg) ==
    IF tbl.poisoned THEN Panicked(tbl, <<>>)
    ELSE DeleteLoop(tbl, DeleteKeys(tbl, data), 1, 0, dbg)

\* mutant of next_column_ord: the counter is loaded and not advanced
next_column_ord_load(tbl) == [tbl |-> tbl, value |-> tbl.column_ords]

\* self.column_ords.fetch_add(1, Ordering::SeqCst): one atomic instruction,
\* returning the value before the addition
next_column_ord(tbl) ==
    [tbl |-> [tbl EXCEPT !.column_ords = @ + 1], value |-> tbl.column_ords]

(***************************************************************************)
(* Option<T>: None is the empty sequence, Some(x) the sequence of x.       *)
(***************************************************************************)
None == <<>>
Some(x) == <<x>>

\* what a call on a schema or catalog handle hands back: the handle after
\* it, and either the value returned or the fact that the call panicked
Outcome(self, panicked, value) == [self |-> self, panicked |-> panicked, value |-> value]

\* a call of a DataTable method, as the closure passed to work_with
TableOutcome(out) == Outcome(out.tbl, out.panicked, [n |-> out.n, rows |-> out.rows])

(***************************************************************************)
(* InMemorySchemaHandle: tables is the DashMap<String, InMemoryTableHandle>.*)
(***************************************************************************)
InMemorySchemaHandle == [tables |-> EmptyMap]

\* mutant of schema_create_table: an existing table is replaced by a new one
schema_create_table_replaces(schema, table_name) ==
    Outcome([schema EXCEPT !.tables = MapInsert(schema.tables, table_name, InMemoryTableHandle)],
            FALSE, table_name \notin DOMAIN schema.tables)

schema_create_table(schema, table_name) ==
    IF table_name \in DOMAIN schema.tables
    THEN Outcome(schema, FALSE, FALSE)
    ELSE Outcome([schema EXCEPT !.tables = MapInsert(schema.tables, table_name, InMemoryTableHandle)],
                 FALSE, TRUE)

schema_drop_table(schema, table_name) ==
    IF table_name \notin DOMAIN schema.tables
    THEN Outcome(schema, FALSE, FALSE)
    ELSE Outcome([schema EXCEPT !.tables = MapRemove(schema.tables, table_name)], FALSE, TRUE)

\* mutant of tables_get: a missing table is found as a new, empty one
tables_get_or_default(schema, table_name) ==
    IF table_name \in DOMAIN schema.tables
    THEN Some(schema.tables[table_name]) ELSE Some(InMemoryTableHandle)

\* self.tables.get(table_name)
tables_get(schema, table_name) ==
    IF table_name \in DOMAIN schema.tables THEN Some(schema.tables[table_name]) ELSE None

\* the DataTable method op applied to data
TableCall(op, tbl, data, dbg) ==
    CASE op = "select" -> TableOutcome(select(tbl))
      [] op = "insert" -> TableOutcome(insert(tbl, data, dbg))
      [] op = "update" -> TableOutcome(update(tbl, data, dbg))
      [] op = "delete" -> TableOutcome(delete(tbl, data, dbg))

\* the closure |table| table.op(data), as the method and its argument
TableOperation(op, data) == [op |-> op, data |-> data]

\* self.tables.get(table_name).map(|table| operation(&*table)); the table is
\* shared, so what operation did to it is seen through the map
schema_work_with(schema, table_name, operation, dbg) ==
    LET found == tables_get(schema, table_name)
    IN IF found = None
       THEN Outcome(schema, FALSE, None)
       ELSE LET out == TableCall(operation.op, found[1], operation.data, dbg)
            IN Outcome([schema EXCEPT !.tables = MapInsert(schema.tables, table_name, out.self)],
                       out.panicked, Some(out.value))

\* the closures passed to the work_with of the catalog, as the method of
\* the schema and its arguments
SchemaCreateTable(table_name) == [method |-> "create_table", table_name |-> table_name]
SchemaDropTable(table_name) == [method |-> "drop_table", table_name |-> table_name]
SchemaWorkWith(table_name, operation) ==
    [method |-> "work_with", table_name |-> table_name, operation |-> operation]
\* |_schema| value
SchemaConstant(value) == [method |-> "constant", value |-> value]

\* operation(&*schema)
SchemaCall(schema, operation, dbg) ==
    CASE operation.method = "create_table" -> schema_create_table(schema, operation.table_name)
      [] operation.method = "drop_table" -> schema_drop_table(schema, operation.table_name)
      [] operation.method = "work_with" ->
             schema_work_with(schema, operation.table_name, operation.operation, dbg)
      [] operation.method = "constant" -> Outcome(schema, FALSE, operation.value)

(***************************************************************************)
(* InMemoryCatalogHandle: schemas is the DashMap<String, InMemorySchemaHandle>.*)
(***************************************************************************)
InMemoryCatalogHandle == [schemas |-> EmptyMap]

create_schema(cat, schema_name) ==
    IF schema_name \in DOMAIN cat.schemas
    THEN Outcome(cat, FALSE, FALSE)
    ELSE Outcome([cat EXCEPT !.schemas = MapInsert(cat.schemas, schema_name, InMemorySchemaHandle)],
                 FALSE, TRUE)

\* mutant of drop_schema: a schema that still holds tables is kept
drop_schema_keeps_tables(cat, schema_name) ==
    IF schema_name \notin DOMAIN cat.schemas
    THEN Outcome(cat, FALSE, FALSE)
    ELSE IF DOMAIN cat.schemas[schema_name].tables # {}
    THEN Outcome(cat, FALSE, TRUE)
    ELSE Outcome([cat EXCEPT !.schemas = MapRemove(cat.schemas, schema_name)], FALSE, TRUE)

drop_schema(cat, schema_name) ==
    IF schema_name \notin DOMAIN cat.schemas
    THEN Outcome(cat, FALSE, FALSE)
    ELSE Outcome([cat EXCEPT !.schemas = MapRemove(cat.schemas, schema_name)], FALSE, TRUE)

\* self.schemas.get(schema_name).map(|schema| operation(&*schema))
catalog_work_with(cat, schema_name, operation, dbg) ==
    IF schema_name \in DOMAIN cat.schemas
    THEN LET out == SchemaCall(cat.schemas[schema_name], operation, dbg)
         IN Outcome([cat EXCEPT !.schemas[schema_name] = out.self],
                    out.panicked, Some(out.value))
    ELSE Outcome(cat, FALSE, None)

\* catalog.work_with(schema, |s| s.create_table(table))
create_table(cat, schema_name, table_name) ==
    catalog_work_with(cat, schema_name, SchemaCreateTable(table_name), FALSE)

\* catalog.work_with(schema, |s| s.drop_table(table))
drop_table(cat, schema_name, table_name) ==
    catalog_work_with(cat, schema_name, SchemaDropTable(table_name), FALSE)

\* catalog.work_with(schema, |s| s.work_with(table, |t| t.op(data)))
on_table(cat, schema_name, table_name, op, data, dbg) ==
    catalog_work_with(cat, schema_name,
                      SchemaWorkWith(table_name, TableOperation(op, data)), dbg)

(***************************************************************************)
(* SqlType (entities/types/src/lib.rs).  A value of the enum is the tuple   *)
(* of its variant and, for Char and VarChar, its length.                    *)
(***************************************************************************)
\* len.unwrap_or(255) in TryFrom<&DataType>
DefaultCharsLen == 255

\* the u64 lengths explored: the small ones and the default
CharsLens == 0..MaxCharsLen \cup {DefaultCharsLen}

PlainSqlTypes == {"Bool", "SmallInt", "Integer", "BigInt", "Real", "DoublePrecision"}
CharSqlTypes == {"Char", "VarChar"}

SqlType ==
    {<<v>> : v \in PlainSqlTypes} \cup {<<v, len>> : v \in CharSqlTypes, len \in CharsLens}

\* unreachable!(): the call panics
Unreachable == <<"unreachable!()">>

\* mutant of type_id: VarChar is given the id of Char
type_id_of_chars(t) ==
    CASE t[1] = "Bool" -> 0
      [] t[1] = "Char" -> 1
      [] t[1] = "VarChar" -> 1
      [] t[1] = "SmallInt" -> 3
      [] t[1] = "Integer" -> 4
      [] t[1] = "BigInt" -> 5
      [] t[1] = "Real" -> 6
      [] t[1] = "DoublePrecision" -> 7

type_id(t) ==
    CASE t[1] = "Bool" -> 0
      [] t[1] = "Char" -> 1
      [] t[1] = "VarChar" -> 2
      [] t[1] = "SmallInt" -> 3
      [] t[1] = "Integer" -> 4
      [] t[1] = "BigInt" -> 5
      [] t[1] = "Real" -> 6
      [] t[1] = "DoublePrecision" -> 7

\* mutant of from_type_id: the arms of Char and VarChar are swapped
from_type_id_swapped(id, len) ==
    CASE id = 0 -> <<"Bool">>
      [] id = 1 -> <<"VarChar", len>>
      [] id = 2 -> <<"Char", len>>
      [] id = 3 -> <<"SmallInt">>
      [] id = 4 -> <<"Integer">>
      [] id = 5 -> <<"BigInt">>
      [] id = 6 -> <<"Real">>
      [] id = 7 -> <<"DoublePrecision">>
      [] OTHER -> Unreachable

from_type_id(id, len) ==
    CASE id = 0 -> <<"Bool">>
      [] id = 1 -> <<"Char", len>>
      [] id = 2 -> <<"VarChar", len>>
      [] id = 3 -> <<"SmallInt">>
      [] id = 4 -> <<"Integer">>
      [] id = 5 -> <<"BigInt">>
      [] id = 6 -> <<"Real">>
      [] id = 7 -> <<"DoublePrecision">>
      [] OTHER -> Unreachable

chars_len(t) == IF t[1] \in CharSqlTypes THEN Some(t[2]) ELSE None

\* Option::unwrap_or
unwrap_or(option, default) == IF option = None THEN default ELSE option[1]

\* SpecTypes has not started: the variables of the conversions when another
\* specification runs
NotConverted == [op |-> "none"]
TypesIdle == sql_types = <<>> /\ converted = NotConverted

(***************************************************************************)
(* The persistent DatabaseHandle (data_manager).  The store under the path *)
(* holds system.schemata (schema id -> name), system.tables (table id ->   *)
(* <<schema id, name>>), system.columns (column id -> <<table id, ordinal, *)
(* name, type tag, chars len>>), a column family of rows per table, and    *)
(* the id counters.  The handle holds the name -> id lookups and the       *)
(* column definitions, built from the store when it is opened.             *)
(***************************************************************************)
EmptyDisk ==
    [schemata |-> EmptyMap, tables |-> EmptyMap, columns |-> EmptyMap,
     families |-> EmptyMap, schema_ids |-> 0, table_ids |-> 0, column_ids |-> 0]

ColumnDefinition(name, sql_type) == [name |-> name, sql_type |-> sql_type]

\* Result
Ok(value) == <<"Ok", value>>
Err(error) == <<"Err", error>>

\* the (ordinal, ColumnDefinition) list of a table read from system.columns
StoredColumns(dsk, table_id) ==
    LET ids == {c \in DOMAIN dsk.columns : dsk.columns[c][1] = table_id}
    IN [i \in 1..Cardinality(ids) |->
           LET c == CHOOSE c \in ids : dsk.columns[c][2] = i - 1
           IN <<i - 1, ColumnDefinition(dsk.columns[c][3],
                                        from_type_id(dsk.columns[c][4], dsk.columns[c][5]))>>]

\* Persistent::persistent(path): the handle built from the store
persistent(dsk) ==
    [schemas |-> [name \in {dsk.schemata[id] : id \in DOMAIN dsk.schemata} |->
                     CHOOSE id \in DOMAIN dsk.schemata : dsk.schemata[id] = name],
     tables |-> [key \in {dsk.tables[id] : id \in DOMAIN dsk.tables} |->
                     CHOOSE id \in DOMAIN dsk.tables : dsk.tables[id] = key],
     columns |-> [id \in DOMAIN dsk.tables |-> StoredColumns(dsk, id)]]

\* what execute and write_into hand back: the handle, the store, the result
Executed(handle, dsk, result) == [handle |-> handle, disk |-> dsk, result |-> result]

\* execute(create_schema_ops(schema_name))
execute_create_schema(handle, dsk, schema_name) ==
    IF schema_name \in DOMAIN handle.schemas
    THEN Executed(handle, dsk, Err("schema already exists"))
    ELSE LET id == dsk.schema_ids
         IN Executed([handle EXCEPT !.schemas = MapInsert(@, schema_name, id)],
                     [dsk EXCEPT !.schemata = MapInsert(@, id, schema_name),
                                 !.schema_ids = id + 1],
                     Ok(id))

\* the records of system.columns for the columns of a new table
ColumnRecords(dsk, table_id, columns) ==
    [c \in {dsk.column_ids + i - 1 : i \in 1..Len(columns)} |->
        LET i == c - dsk.column_ids + 1
        IN <<table_id, i - 1, columns[i].name, type_id(columns[i].sql_type),
             unwrap_or(chars_len(columns[i].sql_type), 0)>>]

\* execute(create_table_ops(schema_name, table_name, columns))
execute_create_table(handle, dsk, schema_name, table_name, columns) ==
    IF schema_name \notin DOMAIN handle.schemas
    THEN Executed(handle, dsk, Err("schema does not exist"))
    ELSE IF <<handle.schemas[schema_name], table_name>> \in DOMAIN handle.tables
    THEN Executed(handle, dsk, Err("table already exists"))
    ELSE LET id == dsk.table_ids
             key == <<handle.schemas[schema_name], table_name>>
             records == ColumnRecords(dsk, id, columns)
         IN Executed([handle EXCEPT
                         !.tables = MapInsert(@, key, id),
                         !.columns = MapInsert(@, id,
                             [i \in 1..Len(columns) |-> <<i - 1, columns[i]>>])],
                     [dsk EXCEPT
                         !.tables = MapInsert(@, id, key),
                         !.columns = [c \in DOMAIN @ \cup DOMAIN records |->
                                         IF c \in DOMAIN records THEN records[c] ELSE @[c]],
                         !.families = MapInsert(@, id, EmptyMap),
                         !.table_ids = id + 1,
                         !.column_ids = @ + Len(columns)],
                     Ok(id))

schema_exists(handle, schema_name) ==
    IF schema_name \in DOMAIN handle.schemas THEN Some(handle.schemas[schema_name]) ELSE None

table_exists(handle, schema_name, table_name) ==
    IF schema_name \notin DOMAIN handle.schemas
    THEN None
    ELSE LET key == <<handle.schemas[schema_name], table_name>>
         IN Some(<<key[1], IF key \in DOMAIN handle.tables
                           THEN Some(handle.tables[key]) ELSE None>>)

\* a full table id <<schema id, table id>> names a table of the handle
IsTable(handle, full_table_id) ==
    \E key \in DOMAIN handle.tables :
        key[1] = full_table_id[1] /\ handle.tables[key] = full_table_id[2]

table_columns(handle, full_table_id) ==
    IF IsTable(handle, full_table_id)
    THEN Ok(handle.columns[full_table_id[2]]) ELSE Err("table does not exist")

RECURSIVE WriteRows(_, _, _)
WriteRows(family, rows, i) ==
    IF i > Len(rows) THEN family
    ELSE WriteRows(MapInsert(family, rows[i][1], rows[i][2]), rows, i + 1)

write_into(handle, dsk, full_table_id, rows) ==
    IF ~IsTable(handle, full_table_id)
    THEN Executed(handle, dsk, Err("table does not exist"))
    ELSE Executed(handle,
                  [dsk EXCEPT !.families[full_table_id[2]] = WriteRows(@, rows, 1)],
                  Ok(Len(rows)))

full_scan(handle, dsk, full_table_id) ==
    IF IsTable(handle, full_table_id)
    THEN Ok(MapIter(dsk.families[full_table_id[2]])) ELSE Err("table does not exist")

NoRestart == [reopened |-> FALSE, view |-> <<>>]
PersistentIdle == disk = EmptyDisk /\ data_manager = None /\ restart = NoRestart

(***************************************************************************)
(* The query analyzer: CREATE TABLE.                                       *)
(***************************************************************************)
\* sql_ast::DataType: the variants try_from has an arm for, three it has
\* none for, and a custom type name
DataType ==
    {<<"SmallInt">>, <<"Int">>, <<"BigInt">>, <<"Boolean">>,
     <<"Real">>, <<"Double">>, <<"Text">>,
     <<"Custom", <<"strange_type_name_whatever">>>>}
    \cup {<<kind, len>> : kind \in {"Char", "Varchar"},
                          len \in {None} \cup {Some(n) : n \in 0..MaxCharsLen}}

NotSupportedType == "NotSupportedType"

\* mutant of try_from: DataType::Real is converted to SqlType::Real
try_from_with_real(data_type) ==
    CASE data_type[1] = "SmallInt" -> Ok(<<"SmallInt">>)
      [] data_type[1] = "Int" -> Ok(<<"Integer">>)
      [] data_type[1] = "BigInt" -> Ok(<<"BigInt">>)
      [] data_type[1] = "Char" -> Ok(<<"Char", unwrap_or(data_type[2], DefaultCharsLen)>>)
      [] data_type[1] = "Varchar" -> Ok(<<"VarChar", unwrap_or(data_type[2], DefaultCharsLen)>>)
      [] data_type[1] = "Boolean" -> Ok(<<"Bool">>)
      [] data_type[1] = "Real" -> Ok(<<"Real">>)
      [] OTHER -> Err(NotSupportedType)

\* impl TryFrom<&DataType> for SqlType
try_from(data_type) ==
    CASE data_type[1] = "SmallInt" -> Ok(<<"SmallInt">>)
      [] data_type[1] = "Int" -> Ok(<<"Integer">>)
      [] data_type[1] = "BigInt" -> Ok(<<"BigInt">>)
      [] data_type[1] = "Char" -> Ok(<<"Char", unwrap_or(data_type[2], DefaultCharsLen)>>)
      [] data_type[1] = "Varchar" -> Ok(<<"VarChar", unwrap_or(data_type[2], DefaultCharsLen)>>)
      [] data_type[1] = "Boolean" -> Ok(<<"Bool">>)
      [] OTHER -> Err(NotSupportedType)

\* the errors of the analyzer
schema_does_not_exist(schema_name) == <<"SchemaDoesNotExist", schema_name>>
table_does_not_exist(table_name) == <<"TableDoesNotExist", table_name>>
table_naming_error(message) == <<"TableNamingError", message>>
type_is_not_supported(type_name) == <<"TypeIsNotSupported", type_name>>

\* the parts of an ObjectName joined by dots
RECURSIVE JoinDots(_)
JoinDots(parts) ==
    IF Len(parts) = 0 THEN ""
    ELSE IF Len(parts) = 1 THEN parts[1]
    ELSE parts[1] \o "." \o JoinDots(Tail(parts))

\* the name a DataType is written with
TypeName(data_type) ==
    CASE data_type[1] = "Custom" -> JoinDots(data_type[2])
      [] data_type[1] = "Real" -> "REAL"
      [] data_type[1] = "Double" -> "DOUBLE"
      [] data_type[1] = "Text" -> "TEXT"
      [] OTHER -> data_type[1]

\* mutant of FullTableName: a name of three parts is read as
\* catalog.schema.table
FullTableNameWithCatalog(object_name) ==
    IF Len(object_name) = 1
    THEN Err("Unsupported table name '" \o object_name[1]
                 \o "'. All table names must be qualified")
    ELSE IF Len(object_name) = 3
    THEN Ok(Tail(object_name))
    ELSE IF Len(object_name) # 2
    THEN Err("Unable to process table name '" \o JoinDots(object_name) \o "'")
    ELSE Ok(object_name)

\* FullTableName::try_from(ObjectName)
FullTableName(object_name) ==
    IF Len(object_name) = 1
    THEN Err("Unsupported table name '" \o object_name[1]
                 \o "'. All table names must be qualified")
    ELSE IF Len(object_name) # 2
    THEN Err("Unable to process table name '" \o JoinDots(object_name) \o "'")
    ELSE Ok(object_name)

column(name, data_type) == [name |-> name, data_type |-> data_type]
ColumnInfo(name, sql_type) == [name |-> name, sql_type |-> sql_type]
TableInfo(schema_id, schema_name, table_name) ==
    [schema_id |-> schema_id, schema_name |-> schema_name, table_name |-> table_name]
CreateTableQuery(table_info, column_defs, if_not_exists) ==
    <<"CreateTable", [table_info |-> table_info, column_defs |-> column_defs,
                      if_not_exists |-> if_not_exists]>>

\* the loop over the columns of the statement: the column definitions, or
\* the error of the first column whose type is not supported
RECURSIVE ColumnDefs(_, _, _)
ColumnDefs(columns, i, column_defs) ==
    IF i > Len(columns) THEN Ok(column_defs)
    ELSE LET sql_type == try_from(columns[i].data_type)
         IN IF sql_type[1] = "Ok"
            THEN ColumnDefs(columns, i + 1,
                            Append(column_defs, ColumnInfo(columns[i].name, sql_type[2])))
            ELSE Err(type_is_not_supported(TypeName(columns[i].data_type)))

\* mutant of analyze_create_table: a table that exists already is an error
\* unless the statement says IF NOT EXISTS
analyze_create_table_checks_table(handle, dsk, statement) ==
    LET full_table_name == FullTableName(statement.name)
    IN IF full_table_name[1] = "Err"
       THEN Executed(handle, dsk, Err(table_naming_error(full_table_name[2])))
       ELSE LET schema_name == full_table_name[2][1]
                table_name == full_table_name[2][2]
                schema_id == schema_exists(handle, schema_name)
            IN IF schema_id = None
               THEN Executed(handle, dsk, Err(schema_does_not_exist(schema_name)))
               ELSE IF /\ <<schema_id[1], table_name>> \in DOMAIN handle.tables
                       /\ ~statement.if_not_exists
               THEN Executed(handle, dsk, Err(<<"TableAlreadyExists", table_name>>))
               ELSE LET column_defs == ColumnDefs(statement.columns, 1, <<>>)
                    IN IF column_defs[1] = "Err"
                       THEN Executed(handle, dsk, column_defs)
                       ELSE Executed(handle, dsk,
                                Ok(CreateTableQuery(
                                    TableInfo(schema_id[1], schema_name, table_name),
                                    column_defs[2], statement.if_not_exists)))

\* Analyzer::analyze(Statement::CreateTable {name, columns, if_not_exists, ..})
analyze_create_table(handle, dsk, statement) ==
    LET full_table_name == FullTableName(statement.name)
    IN IF full_table_name[1] = "Err"
       THEN Executed(handle, dsk, Err(table_naming_error(full_table_name[2])))
       ELSE LET schema_name == full_table_name[2][1]
                table_name == full_table_name[2][2]
                schema_id == schema_exists(handle, schema_name)
            IN IF schema_id = None
               THEN Executed(handle, dsk, Err(schema_does_not_exist(schema_name)))
               ELSE LET column_defs == ColumnDefs(statement.columns, 1, <<>>)
                    IN IF column_defs[1] = "Err"
                       THEN Executed(handle, dsk, column_defs)
                       ELSE Executed(handle, dsk,
                                Ok(CreateTableQuery(
                                    TableInfo(schema_id[1], schema_name, table_name),
                                    column_defs[2], statement.if_not_exists)))

(***************************************************************************)
(* The query analyzer: describe of INSERT.                                 *)
(***************************************************************************)
\* NotFoundError
NotFoundErrorSchema == "NotFoundError::Schema"
NotFoundErrorObject == "NotFoundError::Object"

\* metadata.table_desc(full_table_name): the definition of the table, or
\* which of the schema and the table is missing
table_desc(handle, full_table_name) ==
    LET schema_id == schema_exists(handle, full_table_name[1])
    IN IF schema_id = None
       THEN Err(NotFoundErrorSchema)
       ELSE IF <<schema_id[1], full_table_name[2]>> \notin DOMAIN handle.tables
       THEN Err(NotFoundErrorObject)
       ELSE LET table_id == handle.tables[<<schema_id[1], full_table_name[2]>>]
                columns == handle.columns[table_id]
            IN Ok([full_table_id |-> <<schema_id[1], table_id>>,
                   column_types |-> [i \in 1..Len(columns) |-> columns[i][2].sql_type]])

InsertStatement(table_id, column_types) ==
    <<"Insert", [table_id |-> table_id, sql_types |-> column_types]>>

\* what a panic of the call leaves the caller with
Panic(message) == <<"panic", message>>

\* mutant of describe: the two NotFoundError arms are swapped
describe_swapped(handle, statement) ==
    IF statement.kind = "Insert"
    THEN LET full_table_name == FullTableName(statement.table_name)
         IN IF full_table_name[1] = "Err"
            THEN Panic("Result::unwrap() on an Err value")
            ELSE LET table_def == table_desc(handle, full_table_name[2])
                 IN CASE table_def[1] = "Ok" ->
                            Ok(InsertStatement(table_def[2].full_table_id,
                                               table_def[2].column_types))
                      [] table_def = Err(NotFoundErrorSchema) ->
                            Err(table_does_not_exist(JoinDots(full_table_name[2])))
                      [] table_def = Err(NotFoundErrorObject) ->
                            Err(schema_does_not_exist(full_table_name[2][1]))
    ELSE Panic("not implemented")

\* Analyzer::describe
describe(handle, statement) ==
    IF statement.kind = "Insert"
    THEN LET full_table_name == FullTableName(statement.table_name)
         IN IF full_table_name[1] = "Err"
            THEN Panic("Result::unwrap() on an Err value")
            ELSE LET table_def == table_desc(handle, full_table_name[2])
                 IN CASE table_def[1] = "Ok" ->
                            Ok(InsertStatement(table_def[2].full_table_id,
                                               table_def[2].column_types))
                      [] table_def = Err(NotFoundErrorObject) ->
                            Err(table_does_not_exist(JoinDots(full_table_name[2])))
                      [] table_def = Err(NotFoundErrorSchema) ->
                            Err(schema_does_not_exist(full_table_name[2][1]))
    ELSE Panic("not implemented")

NotAnalysed == [op |-> "none"]
AnalyzerIdle == analysis = NotAnalysed

(***************************************************************************)
(* The expression evaluator (DynamicExpressionEvaluation).                 *)
(***************************************************************************)
\* BigDecimal: a number is kept as the fraction <<numerator, denominator>>
\* in lowest terms with a positive denominator
Abs(n) == IF n < 0 THEN -n ELSE n

RECURSIVE GCD(_, _)
GCD(a, b) == IF b = 0 THEN a ELSE GCD(b, a % b)

BigDecimal(n, d) ==
    LET g == GCD(Abs(n), Abs(d))
    IN IF d < 0 THEN <<(-n) \div g, (-d) \div g>> ELSE <<n \div g, d \div g>>

\* the quotient rounded towards zero
TruncDiv(a, b) ==
    IF (a < 0) = (b < 0) THEN Abs(a) \div Abs(b) ELSE -(Abs(a) \div Abs(b))

BigAdd(x, y) == BigDecimal(x[1] * y[2] + y[1] * x[2], x[2] * y[2])
BigSub(x, y) == BigDecimal(x[1] * y[2] - y[1] * x[2], x[2] * y[2])
BigMul(x, y) == BigDecimal(x[1] * y[1], x[2] * y[2])
BigDiv(x, y) == BigDecimal(x[1] * y[2], x[2] * y[1])
BigRem(x, y) ==
    BigSub(x, BigMul(BigDecimal(TruncDiv(x[1] * y[2], x[2] * y[1]), 1), y))

\* BigDecimal::is_integer: the number has no fractional part
is_integer(x) == x[2] = 1

\* BigInt & and |, on the two's complement form of the operands
BitWidth == 16
RECURSIVE BitAndNat(_, _)
BitAndNat(a, b) ==
    IF a = 0 \/ b = 0 THEN 0
    ELSE (a % 2) * (b % 2) + 2 * BitAndNat(a \div 2, b \div 2)
RECURSIVE BitOrNat(_, _)
BitOrNat(a, b) ==
    IF a = 0 THEN b
    ELSE IF b = 0 THEN a
    ELSE (IF a % 2 = 1 \/ b % 2 = 1 THEN 1 ELSE 0) + 2 * BitOrNat(a \div 2, b \div 2)
Signed(u) == IF u >= 2 ^ (BitWidth - 1) THEN u - 2 ^ BitWidth ELSE u
BitAnd(a, b) == Signed(BitAndNat(a % (2 ^ BitWidth), b % (2 ^ BitWidth)))
BitOr(a, b) == Signed(BitOrNat(a % (2 ^ BitWidth), b % (2 ^ BitWidth)))

\* ScalarValue and ScalarOp
Number(n, d) == <<"Number", BigDecimal(n, d)>>
String(str) == <<"String", str>>
Value(scalar_value) == <<"Value", scalar_value>>
Column(name) == <<"Column", name>>
Binary(op, lhs, rhs) == <<"Binary", op, lhs, rhs>>

BinaryOp == {"Add", "Sub", "Mul", "Div", "Mod", "Concat", "BitwiseAnd", "BitwiseOr"}

\* the symbol an operator is reported with
Symbol(op) ==
    CASE op = "Add" -> "+"
      [] op = "Sub" -> "-"
      [] op = "Mul" -> "*"
      [] op = "Div" -> "/"
      [] op = "Mod" -> "%"
      [] op = "Concat" -> "||"
      [] op = "BitwiseAnd" -> "&"
      [] op = "BitwiseOr" -> "|"

undefined_function(operator, left_type, right_type) ==
    <<"UndefinedFunction", operator, left_type, right_type>>

\* the name an operand's type is reported with: a number given to a
\* bitwise operator is a FLOAT when it has a fractional part
OperandType(op, scalar_value) ==
    IF scalar_value[1] = "String" THEN "STRING"
    ELSE IF op \in {"BitwiseAnd", "BitwiseOr"} /\ ~is_integer(scalar_value[2]) THEN "FLOAT"
    ELSE "NUMBER"

\* what eval hands back: its result and what it sent to the sender
Evaluated(result, sent) == [result |-> result, sent |-> sent]

\* the error of an operator applied to operands it is not defined for
Undefined(op, left, right) ==
    Evaluated(Err(<<>>),
              <<Err(undefined_function(Symbol(op), OperandType(op, left),
                                       OperandType(op, right)))>>)

\* mutant of eval_numbers: the bitwise operators drop the fractional part
\* of their operands
eval_numbers_truncating(op, left, right) ==
    CASE op = "Add" -> Evaluated(Ok(Value(<<"Number", BigAdd(left, right)>>)), <<>>)
      [] op = "Sub" -> Evaluated(Ok(Value(<<"Number", BigSub(left, right)>>)), <<>>)
      [] op = "Mul" -> Evaluated(Ok(Value(<<"Number", BigMul(left, right)>>)), <<>>)
      [] op = "Div" ->
            IF right[1] = 0 THEN Evaluated(Panic("Division by zero"), <<>>)
            ELSE Evaluated(Ok(Value(<<"Number", BigDiv(left, right)>>)), <<>>)
      [] op = "Mod" ->
            IF right[1] = 0 THEN Evaluated(Panic("Division by zero"), <<>>)
            ELSE Evaluated(Ok(Value(<<"Number", BigRem(left, right)>>)), <<>>)
      [] op = "BitwiseAnd" ->
            Evaluated(Ok(Value(Number(BitAnd(TruncDiv(left[1], left[2]),
                                             TruncDiv(right[1], right[2])), 1))), <<>>)
      [] op = "BitwiseOr" ->
            Evaluated(Ok(Value(Number(BitOr(TruncDiv(left[1], left[2]),
                                            TruncDiv(right[1], right[2])), 1))), <<>>)
      [] op = "Concat" -> Undefined(op, <<"Number", left>>, <<"Number", right>>)

\* a binary operator on two numbers
eval_numbers(op, left, right) ==
    CASE op = "Add" -> Evaluated(Ok(Value(<<"Number", BigAdd(left, right)>>)), <<>>)
      [] op = "Sub" -> Evaluated(Ok(Value(<<"Number", BigSub(left, right)>>)), <<>>)
      [] op = "Mul" -> Evaluated(Ok(Value(<<"Number", BigMul(left, right)>>)), <<>>)
      [] op = "Div" ->
            IF right[1] = 0 THEN Evaluated(Panic("Division by zero"), <<>>)
            ELSE Evaluated(Ok(Value(<<"Number", BigDiv(left, right)>>)), <<>>)
      [] op = "Mod" ->
            IF right[1] = 0 THEN Evaluated(Panic("Division by zero"), <<>>)
            ELSE Evaluated(Ok(Value(<<"Number", BigRem(left, right)>>)), <<>>)
      [] op = "BitwiseAnd" ->
            IF is_integer(left) /\ is_integer(right)
            THEN Evaluated(Ok(Value(Number(BitAnd(left[1], right[1]), 1))), <<>>)
            ELSE Undefined(op, <<"Number", left>>, <<"Number", right>>)
      [] op = "BitwiseOr" ->
            IF is_integer(left) /\ is_integer(right)
            THEN Evaluated(Ok(Value(Number(BitOr(left[1], right[1]), 1))), <<>>)
            ELSE Undefined(op, <<"Number", left>>, <<"Number", right>>)
      [] op = "Concat" -> Undefined(op, <<"Number", left>>, <<"Number", right>>)

\* mutant of eval_strings: + on two strings concatenates them
eval_strings_adding(op, left, right) ==
    IF op \in {"Concat", "Add"}
    THEN Evaluated(Ok(Value(String(left \o right))), <<>>)
    ELSE Undefined(op, String(left), String(right))

\* a binary operator on two strings
eval_strings(op, left, right) ==
    IF op = "Concat"
    THEN Evaluated(Ok(Value(String(left \o right))), <<>>)
    ELSE Undefined(op, String(left), String(right))

\* a binary operator on the reduced operands
eval_binary(op, left, right) ==
    IF left[1] = "Number" /\ right[1] = "Number"
    THEN eval_numbers(op, left[2], right[2])
    ELSE IF left[1] = "String" /\ right[1] = "String"
    THEN eval_strings(op, left[2], right[2])
    ELSE Undefined(op, left, right)

\* mutant of eval_column: every column is read at ordinal 0
eval_column_first(columns, row, name) == row[1]

\* Column(name): the datum of the row at the ordinal of the column
eval_column(columns, row, name) == row[columns[name] + 1]

\* DynamicExpressionEvaluation::eval(row, scalar_op)
RECURSIVE eval(_, _, _)
eval(columns, row, tree) ==
    CASE tree[1] = "Column" ->
            Evaluated(Ok(Value(eval_column(columns, row, tree[2]))), <<>>)
      [] tree[1] = "Value" -> Evaluated(Ok(tree), <<>>)
      [] tree[1] = "Binary" ->
            LET left == eval(columns, row, tree[3])
            IN IF left.result[1] # "Ok" THEN left
               ELSE LET right == eval(columns, row, tree[4])
                    IN IF right.result[1] # "Ok"
                       THEN Evaluated(right.result, left.sent \o right.sent)
                       ELSE LET out == eval_binary(tree[2], left.result[2][2],
                                                   right.result[2][2])
                            IN Evaluated(out.result,
                                         left.sent \o right.sent \o out.sent)

NotEvaluated == <<None, None>>
EvalIdle == scalar_op = <<>> /\ eval_rows = <<>> /\ evaluated = NotEvaluated

\* SpecEngine has not started: the variables of the query engine when
\* another specification runs
NoCommand ==
    [command |-> <<"none">>, other |-> "none", sent |-> <<>>, executed |-> <<>>,
     result |-> <<>>]
EngineIdle ==
    /\ session = [prepared_statements |-> EmptyMap, portals |-> EmptyMap]
    /\ metadata = [exists |-> FALSE, stored |-> 0]
    /\ handled = NoCommand

RestIdle == TypesIdle /\ PersistentIdle /\ AnalyzerIdle /\ EvalIdle /\ EngineIdle

(***************************************************************************)
(* The arguments a caller passes.                                          *)
(***************************************************************************)
SeqsUpTo(S, n) == UNION {[1..k -> S] : k \in 0..n}

\* values: Binary::pack(&[Datum::from_u64(d)])
Values == {Pack(<<d>>) : d \in 1..MaxDatum}
\* keys: the packed record ids 0..MaxRecordId; MaxRecordId itself is never issued
Keys == {Pack(<<id>>) : id \in 0..MaxRecordId}

TableOps == {"select", "insert", "update", "delete"}

InsertArgs == SeqsUpTo(Values, MaxBatch)
UpdateArgs == SeqsUpTo(Keys \X Values, MaxBatch)
DeleteArgs == SeqsUpTo(Keys, MaxBatch)

(***************************************************************************)
(* Spec: a sequential caller of one table handle.                          *)
(***************************************************************************)
NoReturn == [op |-> "none", panicked |-> FALSE, n |-> 0, rows |-> <<>>, dropped |-> ""]
ReturnOf(op, out) == [op |-> op, panicked |-> out.panicked, n |-> out.n, rows |-> out.rows]

Range(s) == {s[i] : i \in 1..Len(s)}

(***************************************************************************)
(* SpecConc: threads sharing one table handle, into which a sequential     *)
(* caller has inserted some rows before.  A thread makes MaxCalls calls,   *)
(* one after the other; a step of a call is the acquisition of the lock,   *)
(* one iteration of its loop, or its return, which drops the guard.        *)
(***************************************************************************)
Threads == 1..NumThreads

\* the record ids the threads of SpecBatch may use up
BatchMaxRecordId == 3

\* RwLock<BTreeMap>: the thread holding the write guard (0: none) and the
\* threads holding read guards
Unlocked == [writer |-> 0, readers |-> {}]

Idle(calls) ==
    [pc |-> "idle", op |-> "none", data |-> <<>>, i |-> 1, keys |-> <<>>,
     size |-> 0, calls |-> calls]

NoCursor == [held |-> FALSE, rows |-> <<>>]

\* mutant of CursorItems: the Cursor iterates over the records of the table
CursorItemsLive(cur, tbl) == MapIter(tbl.records)

\* what iterating a Cursor yields: the pairs select() collected into it
CursorItems(cur, tbl) == cur.rows

ConcArgs(op) ==
    CASE op = "select" -> {<<>>}
      [] op = "insert" -> {<<Pack(<<1>>)>>, <<Pack(<<1>>), Pack(<<2>>)>>}
      [] op = "update" -> {<<<<Pack(<<0>>), Pack(<<2>>)>>>>}
      [] op = "delete" -> {<<Pack(<<0>>)>>, <<Pack(<<0>>), Pack(<<1>>)>>}

\* the values of the insert calls in progress that are still to be stored
Pending ==
    LET left(t) == IF threads[t].op = "insert" /\ threads[t].pc # "idle"
                   THEN Len(threads[t].data) - (threads[t].i - 1) ELSE 0
        RECURSIVE sum(_)
        sum(ts) == IF ts = {} THEN 0
                   ELSE LET t == CHOOSE x \in ts : TRUE IN left(t) + sum(ts \ {t})
    IN sum(Threads)

\* a thread calls op(data), the record ids staying below max_record_id
CallWithin(t, op, data, max_record_id) ==
    /\ threads[t].pc = "idle"
    /\ threads[t].calls < MaxCalls
    /\ op = "insert" => table.record_ids + Pending + Len(data) <= max_record_id
    /\ threads' = [threads EXCEPT ![t] =
                      [pc |-> "lock", op |-> op, data |-> data, i |-> 1,
                       keys |-> <<>>, size |-> 0, calls |-> threads[t].calls]]
    /\ only_inserts' = (only_inserts /\ op \in {"select", "insert"})
    /\ stored_pairs' = IF only_inserts' THEN stored_pairs ELSE <<>>
    /\ returned' = IF only_inserts' THEN returned ELSE 0
    /\ UNCHANGED <<debug_assertions, table, rwlock, cursor>>
    /\ UNCHANGED seqVars
    /\ UNCHANGED restVars

Call(t, op, data) == CallWithin(t, op, data, MaxRecordId)

\* mutant of CanWrite: a write guard is handed out next to another one
CanWriteNextToWriter(lock) == lock.readers = {}

\* RwLock::write blocks while another guard is held
CanWrite(lock) == lock.writer = 0 /\ lock.readers = {}

\* mutant of CanRead: a read guard is handed out next to the write guard
CanReadNextToWriter(lock) == TRUE

\* RwLock::read blocks while the write guard is held
CanRead(lock) == lock.writer = 0

\* self.records.read().unwrap() / self.records.write().unwrap(): on a
\* poisoned lock unwrap panics and the guard is dropped at once
Lock(t) ==
    /\ threads[t].pc = "lock"
    /\ IF threads[t].op = "select" THEN CanRead(rwlock) ELSE CanWrite(rwlock)
    /\ IF table.poisoned
       THEN /\ threads' = [threads EXCEPT ![t].pc = "panicked"]
            /\ UNCHANGED rwlock
       ELSE /\ threads' = [threads EXCEPT ![t].pc = "locked"]
            /\ rwlock' = IF threads[t].op = "select"
                          THEN [rwlock EXCEPT !.readers = @ \cup {t}]
                          ELSE [rwlock EXCEPT !.writer = t]
    /\ UNCHANGED <<debug_assertions, table, only_inserts, cursor, stored_pairs, returned>>
    /\ UNCHANGED seqVars
    /\ UNCHANGED restVars

\* the guard is dropped when the thread unwinds from a failed assertion
Unwind(t, tbl) ==
    /\ table' = [tbl EXCEPT !.poisoned = TRUE]
    /\ rwlock' = Unlocked
    /\ threads' = [threads EXCEPT ![t].pc = "panicked"]

\* select under the read guard: the pairs are cloned into the Cursor
SelectCollect(t) ==
    /\ threads[t].pc = "locked" /\ threads[t].op = "select"
    /\ cursor' = [cursor EXCEPT ![t] = [held |-> TRUE, rows |-> select(table).rows]]
    /\ threads' = [threads EXCEPT ![t].pc = "return"]
    /\ UNCHANGED <<debug_assertions, table, only_inserts, rwlock, stored_pairs, returned>>
    /\ UNCHANGED seqVars
    /\ UNCHANGED restVars

\* one iteration of the loop of insert under the write guard
InsertIteration(t) ==
    LET th == threads[t]
        step == InsertOne(table, th.data[th.i], debug_assertions)
        pairs == [i \in 1..Len(step.stored) |-> <<step.stored[i], th.data[th.i]>>]
    IN /\ th.pc = "locked" /\ th.op = "insert" /\ th.i <= Len(th.data)
       /\ stored_pairs' = IF only_inserts THEN stored_pairs \o pairs ELSE <<>>
       /\ IF step.ok
          THEN /\ table' = step.tbl
               /\ threads' = [threads EXCEPT
                                 ![t].i = th.i + 1,
                                 ![t].keys = Append(th.keys,
                                                    Pack(<<FetchAddRecordId(table)>>))]
               /\ UNCHANGED rwlock
          ELSE Unwind(t, step.tbl)
       /\ UNCHANGED <<debug_assertions, only_inserts, cursor, returned>>
       /\ UNCHANGED seqVars
       /\ UNCHANGED restVars

\* one iteration of the loop of update under the write guard
UpdateIteration(t) ==
    LET th == threads[t]
        step == UpdateOne(table, th.data[th.i], debug_assertions)
    IN /\ th.pc = "locked" /\ th.op = "update" /\ th.i <= Len(th.data)
       /\ IF step.ok
          THEN /\ table' = step.tbl
               /\ threads' = [threads EXCEPT ![t].i = th.i + 1]
               /\ UNCHANGED rwlock
          ELSE Unwind(t, step.tbl)
       /\ UNCHANGED <<debug_assertions, only_inserts, cursor, stored_pairs, returned>>
       /\ UNCHANGED seqVars
       /\ UNCHANGED restVars

\* delete under the write guard: the keys to remove are collected first
DeleteCollect(t) ==
    /\ threads[t].pc = "locked" /\ threads[t].op = "delete"
    /\ threads' = [threads EXCEPT ![t].pc = "remove",
                                   ![t].keys = DeleteKeys(table, threads[t].data)]
    /\ UNCHANGED <<debug_assertions, table, only_inserts, rwlock, cursor, stored_pairs, returned>>
    /\ UNCHANGED seqVars
    /\ UNCHANGED restVars

\* one iteration of the loop of delete under the write guard
DeleteIteration(t) ==
    LET th == threads[t]
        step == DeleteOne(table, th.keys[th.i], debug_assertions)
    IN /\ th.pc = "remove" /\ th.i <= Len(th.keys)
       /\ IF step.ok
          THEN /\ table' = step.tbl
               /\ threads' = [threads EXCEPT ![t].i = th.i + 1, ![t].size = th.size + 1]
               /\ UNCHANGED rwlock
          ELSE Unwind(t, step.tbl)
       /\ UNCHANGED <<debug_assertions, only_inserts, cursor, stored_pairs, returned>>
       /\ UNCHANGED seqVars
       /\ UNCHANGED restVars

\* the call returns: the guard is dropped and the count handed back
Return(t) ==
    LET th == threads[t]
    IN /\ \/ th.pc = "return"
          \/ th.pc = "locked" /\ th.op \in {"insert", "update"} /\ th.i > Len(th.data)
          \/ th.pc = "remove" /\ th.i > Len(th.keys)
       /\ rwlock' = [writer |-> IF rwlock.writer = t THEN 0 ELSE rwlock.writer,
                     readers |-> rwlock.readers \ {t}]
       /\ threads' = [threads EXCEPT ![t] = Idle(th.calls + 1)]
       /\ returned' = IF th.op = "insert" /\ only_inserts
                       THEN returned + Len(th.data) ELSE returned
       /\ UNCHANGED <<debug_assertions, table, only_inserts, cursor, stored_pairs>>
       /\ UNCHANGED seqVars
       /\ UNCHANGED restVars

\* the vectors the sequential caller inserted before the threads start
ConcInitialArgs == {data \in ConcArgs("insert") \cup {<<>>} : Len(data) <= MaxRecordId}

InitConc ==
    /\ debug_assertions \in BOOLEAN
    /\ \E data \in ConcInitialArgs :
          LET out == insert(InMemoryTableHandle, data, debug_assertions)
          IN /\ table = out.tbl
             /\ stored_pairs = [i \in 1..Len(out.stored) |-> <<out.stored[i], data[i]>>]
             /\ returned = out.n
    /\ ret = NoReturn
    /\ inserted = <<>>
    /\ only_inserts = TRUE
    /\ issued = {}
    /\ catalog = InMemoryCatalogHandle
    /\ rwlock = Unlocked
    /\ threads = [t \in Threads |-> Idle(0)]
    /\ cursor = [t \in Threads |-> NoCursor]
    /\ ordinals = <<>>
    /\ RestIdle

NextConc ==
    \/ \E t \in Threads, op \in TableOps : \E data \in ConcArgs(op) : Call(t, op, data)
    \/ \E t \in Threads : Lock(t)
    \/ \E t \in Threads : SelectCollect(t)
    \/ \E t \in Threads : InsertIteration(t)
    \/ \E t \in Threads : UpdateIteration(t)
    \/ \E t \in Threads : DeleteCollect(t)
    \/ \E t \in Threads : DeleteIteration(t)
    \/ \E t \in Threads : Return(t)

(***************************************************************************)
(* SpecRace: threads sharing one catalog handle.  Each thread calls        *)
(* create_schema, then create_table through work_with, then inserts rows   *)
(* into the table if its create_table returned true.  A step is one        *)
(* operation of a DashMap, which locks the shard of the key for that       *)
(* operation only; the Ref that get() returns keeps the shard read-locked  *)
(* while the closure of work_with runs.                                    *)
(***************************************************************************)
RaceSchema == "schema_name_1"
RaceTable == "table_name_1"
RaceValue == Pack(<<1>>)

\* a thread before its first call; schema_created and table_created are
\* what create_schema and work_with(.., create_table) returned, if they did
Creator ==
    [pc |-> "create_schema", schema_created |-> None, table_created |-> None,
     calls |-> 0]

\* thread t is inside the closure of work_with and holds the Ref of the schema
HoldsSchemaRef(t) == threads[t].pc \in {"table_contains_key", "table_insert"}

\* create_schema: if self.schemas.contains_key(schema_name) { false }
SchemaContainsKey(t) ==
    /\ threads[t].pc = "create_schema"
    /\ threads' = IF RaceSchema \in DOMAIN catalog.schemas
                  THEN [threads EXCEPT ![t].pc = "create_table",
                                       ![t].schema_created = Some(FALSE)]
                  ELSE [threads EXCEPT ![t].pc = "schema_insert"]
    /\ UNCHANGED <<catalog, inserted, rwlock, cursor, stored_pairs, returned>>
    /\ UNCHANGED <<debug_assertions, table, ret, only_inserts, issued>>
    /\ UNCHANGED restVars

\* create_schema: else { self.schemas.insert(schema_name, default); true };
\* DashMap::insert replaces the value of a key that is there, and waits for
\* the Refs of the shard to be dropped
SchemaInsert(t) ==
    /\ threads[t].pc = "schema_insert"
    /\ \A u \in Threads : ~HoldsSchemaRef(u)
    /\ catalog' = [catalog EXCEPT
                      !.schemas = MapInsert(@, RaceSchema, InMemorySchemaHandle)]
    /\ threads' = [threads EXCEPT ![t].pc = "create_table",
                                  ![t].schema_created = Some(TRUE)]
    /\ UNCHANGED <<inserted, rwlock, cursor, stored_pairs, returned>>
    /\ UNCHANGED <<debug_assertions, table, ret, only_inserts, issued>>
    /\ UNCHANGED restVars

\* work_with: self.schemas.get(schema_name), None when the schema is missing
WorkWithSchema(t) ==
    /\ threads[t].pc = "create_table"
    /\ threads' = IF RaceSchema \in DOMAIN catalog.schemas
                  THEN [threads EXCEPT ![t].pc = "table_contains_key"]
                  ELSE [threads EXCEPT ![t].pc = "done"]
    /\ UNCHANGED <<catalog, inserted, rwlock, cursor, stored_pairs, returned>>
    /\ UNCHANGED <<debug_assertions, table, ret, only_inserts, issued>>
    /\ UNCHANGED restVars

\* create_table: if self.tables.contains_key(table_name) { false }
TableContainsKey(t) ==
    /\ threads[t].pc = "table_contains_key"
    /\ threads' = IF RaceTable \in DOMAIN catalog.schemas[RaceSchema].tables
                  THEN [threads EXCEPT ![t].pc = "done",
                                       ![t].table_created = Some(Some(FALSE))]
                  ELSE [threads EXCEPT ![t].pc = "table_insert"]
    /\ UNCHANGED <<catalog, inserted, rwlock, cursor, stored_pairs, returned>>
    /\ UNCHANGED <<debug_assertions, table, ret, only_inserts, issued>>
    /\ UNCHANGED restVars

\* create_table: else { self.tables.insert(table_name, default); true }
TableInsert(t) ==
    /\ threads[t].pc = "table_insert"
    /\ catalog' = [catalog EXCEPT
                      !.schemas[RaceSchema].tables =
                          MapInsert(@, RaceTable, InMemoryTableHandle)]
    /\ threads' = [threads EXCEPT ![t].pc = "done",
                                  ![t].table_created = Some(Some(TRUE))]
    /\ UNCHANGED <<inserted, rwlock, cursor, stored_pairs, returned>>
    /\ UNCHANGED <<debug_assertions, table, ret, only_inserts, issued>>
    /\ UNCHANGED restVars

\* a thread whose create_table returned true inserts a row:
\* catalog.work_with(schema, |s| s.work_with(table, |t| t.insert(data)))
InsertRow(t) ==
    LET out == on_table(catalog, RaceSchema, RaceTable, "insert", <<RaceValue>>,
                        debug_assertions)
    IN /\ threads[t].pc = "done"
       /\ threads[t].table_created = Some(Some(TRUE))
       /\ threads[t].calls < MaxCalls
       /\ catalog' = out.self
       /\ inserted' = IF out.value = Some(Some([n |-> 1, rows |-> <<>>]))
                      THEN Append(inserted, RaceValue) ELSE inserted
       /\ threads' = [threads EXCEPT ![t].calls = @ + 1]
       /\ UNCHANGED <<rwlock, cursor, stored_pairs, returned>>
       /\ UNCHANGED <<debug_assertions, table, ret, only_inserts, issued>>
       /\ UNCHANGED restVars

InitRace ==
    /\ debug_assertions \in BOOLEAN
    /\ table = InMemoryTableHandle
    /\ stored_pairs = <<>>
    /\ returned = 0
    /\ ret = NoReturn
    /\ inserted = <<>>
    /\ only_inserts = TRUE
    /\ issued = {}
    /\ catalog = InMemoryCatalogHandle
    /\ rwlock = Unlocked
    /\ threads = [t \in Threads |-> Creator]
    /\ cursor = [t \in Threads |-> NoCursor]
    /\ ordinals = <<>>
    /\ RestIdle

NextRace ==
    \/ \E t \in Threads : SchemaContainsKey(t)
    \/ \E t \in Threads : SchemaInsert(t)
    \/ \E t \in Threads : WorkWithSchema(t)
    \/ \E t \in Threads : TableContainsKey(t)
    \/ \E t \in Threads : TableInsert(t)
    \/ \E t \in Threads : InsertRow(t)

SpecRace == InitRace /\ [][NextRace]_vars

(***************************************************************************)
(* SpecBatch: the threads of SpecConc on a table that is empty at first,   *)
(* with record ids enough for a batch of two values next to another insert *)
(***************************************************************************)
InitBatch ==
    /\ debug_assertions \in BOOLEAN
    /\ table = InMemoryTableHandle
    /\ stored_pairs = <<>>
    /\ returned = 0
    /\ ret = NoReturn
    /\ inserted = <<>>
    /\ only_inserts = TRUE
    /\ issued = {}
    /\ catalog = InMemoryCatalogHandle
    /\ rwlock = Unlocked
    /\ threads = [t \in Threads |-> Idle(0)]
    /\ cursor = [t \in Threads |-> NoCursor]
    /\ ordinals = <<>>
    /\ RestIdle

NextBatch ==
    \/ \E t \in Threads, op \in TableOps : \E data \in ConcArgs(op) :
          CallWithin(t, op, data, BatchMaxRecordId)
    \/ \E t \in Threads : Lock(t)
    \/ \E t \in Threads : SelectCollect(t)
    \/ \E t \in Threads : InsertIteration(t)
    \/ \E t \in Threads : UpdateIteration(t)
    \/ \E t \in Threads : DeleteCollect(t)
    \/ \E t \in Threads : DeleteIteration(t)
    \/ \E t \in Threads : Return(t)

SpecBatch == InitBatch /\ [][NextBatch]_vars

Init ==
    /\ debug_assertions \in BOOLEAN
    /\ table = InMemoryTableHandle
    /\ ret = NoReturn
    /\ inserted = <<>>
    /\ only_inserts = TRUE
    /\ issued = {}
    /\ catalog = InMemoryCatalogHandle
    /\ rwlock = Unlocked
    /\ threads = [t \in Threads |-> Idle(0)]
    /\ cursor = [t \in Threads |-> NoCursor]
    /\ ordinals = <<>>
    /\ RestIdle
    /\ stored_pairs = <<>>
    /\ returned = 0

CallSelect ==
    LET out == select(table)
    IN /\ table' = out.tbl
       /\ ret' = ReturnOf("select", out)
       /\ UNCHANGED <<debug_assertions, inserted, only_inserts, issued, catalog>>
       /\ UNCHANGED concVars
       /\ UNCHANGED restVars

CallInsert(data) ==
    LET out == insert(table, data, debug_assertions)
    IN /\ table.record_ids + Len(data) <= MaxRecordId
       /\ table' = out.tbl
       /\ ret' = ReturnOf("insert", out)
       /\ inserted' = IF only_inserts THEN inserted \o data ELSE inserted
       /\ issued' = issued \cup Range(out.stored)
       /\ UNCHANGED <<debug_assertions, only_inserts, catalog>>
       /\ UNCHANGED concVars
       /\ UNCHANGED restVars

CallUpdate(data) ==
    LET out == update(table, data, debug_assertions)
    IN /\ table' = out.tbl
       /\ ret' = ReturnOf("update", out)
       /\ inserted' = <<>>
       /\ only_inserts' = FALSE
       /\ UNCHANGED <<debug_assertions, issued, catalog>>
       /\ UNCHANGED concVars
       /\ UNCHANGED restVars

CallDelete(data) ==
    LET out == delete(table, data, debug_assertions)
    IN /\ table' = out.tbl
       /\ ret' = ReturnOf("delete", out)
       /\ inserted' = <<>>
       /\ only_inserts' = FALSE
       /\ UNCHANGED <<debug_assertions, issued, catalog>>
       /\ UNCHANGED concVars
       /\ UNCHANGED restVars

(***************************************************************************)
(* SpecCatalog: a sequential caller of the catalog.  The vectors passed to *)
(* the tables are empty or hold one element, as in the tests of the        *)
(* catalog.                                                                *)
(***************************************************************************)
SchemaNames == {"schema_name_1", "schema_name_2"}
TableNames == {"table_name_1", "table_name_2"}

CatalogArgs(op) ==
    CASE op = "select" -> {<<>>}
      [] op = "insert" -> {<<>>, <<Pack(<<1>>)>>}
      [] op = "update" -> {<<>>, <<<<Pack(<<0>>), Pack(<<2>>)>>>>}
      [] op = "delete" -> {<<>>, <<Pack(<<0>>)>>}

\* what SpecCatalog keeps of the last call: the method, whether it panicked
\* and the value it returned.  History: dropped is the schema a successful
\* drop_schema removed when a table of it had been inserted into (else ""),
\* recreated that this create_schema created the schema such a drop_schema
\* had removed in the step before.
CatalogReturn(op, out, dropped, recreated) ==
    [op |-> op, panicked |-> out.panicked, value |-> out.value,
     dropped |-> dropped, recreated |-> recreated]

CatalogStep(op, out, dropped, recreated) ==
    /\ catalog' = out.self
    /\ ret' = CatalogReturn(op, out, dropped, recreated)
    /\ UNCHANGED <<debug_assertions, table, inserted, only_inserts, issued>>
    /\ UNCHANGED concVars
    /\ UNCHANGED restVars

\* the tables of the catalog, as <<schema name, table name>>
TablesOf(cat) ==
    {st \in SchemaNames \X TableNames :
        st[1] \in DOMAIN cat.schemas /\ st[2] \in DOMAIN cat.schemas[st[1]].tables}

TableAt(cat, st) == cat.schemas[st[1]].tables[st[2]]

\* the record ids the tables of the catalog have issued, in total
IssuedRecordIds(cat) ==
    LET RECURSIVE sum(_)
        sum(sts) == IF sts = {} THEN 0
                    ELSE LET st == CHOOSE x \in sts : TRUE
                         IN TableAt(cat, st).record_ids + sum(sts \ {st})
    IN sum(TablesOf(cat))

HasInsertedTable(cat, s) ==
    \E t \in TableNames : <<s, t>> \in TablesOf(cat) /\ TableAt(cat, <<s, t>>).record_ids > 0

CreateSchema(s) ==
    CatalogStep("create_schema", create_schema(catalog, s), "",
                ret.op = "drop_schema" /\ ret.dropped = s)

DropSchema(s) ==
    CatalogStep("drop_schema", drop_schema(catalog, s),
                IF HasInsertedTable(catalog, s) THEN s ELSE "", FALSE)

CreateTable(s, t) ==
    /\ CatalogStep("create_table", create_table(catalog, s, t), "", FALSE)

DropTable(s, t) == CatalogStep("drop_table", drop_table(catalog, s, t), "", FALSE)

OnTable(s, t, op, data) ==
    /\ (op = "insert" /\ <<s, t>> \in TablesOf(catalog))
           => IssuedRecordIds(catalog) + Len(data) <= CatalogMaxRecordId
    /\ CatalogStep(op, on_table(catalog, s, t, op, data, debug_assertions), "", FALSE)

NextCatalog ==
    \/ \E s \in SchemaNames : CreateSchema(s)
    \/ \E s \in SchemaNames : DropSchema(s)
    \/ \E s \in SchemaNames, t \in TableNames : CreateTable(s, t)
    \/ \E s \in SchemaNames, t \in TableNames : DropTable(s, t)
    \/ \E s \in SchemaNames, t \in TableNames, op \in TableOps :
           \E data \in CatalogArgs(op) : OnTable(s, t, op, data)

SpecCatalog == Init /\ [][NextCatalog]_vars

SpecConc == InitConc /\ [][NextConc]_vars

Next ==
    \/ CallSelect
    \/ \E data \in InsertArgs : CallInsert(data)
    \/ \E data \in UpdateArgs : CallUpdate(data)
    \/ \E data \in DeleteArgs : CallDelete(data)

Spec == Init /\ [][Next]_vars

(***************************************************************************)
(* SpecOrd: threads call next_column_ord on the table handle while rows    *)
(* are inserted, updated and deleted.  next_column_ord takes no lock and   *)
(* is a single atomic instruction, so a call is one step.                  *)
(***************************************************************************)
NextColumnOrd(t) ==
    LET out == next_column_ord(table)
    IN /\ Len(ordinals) < MaxColumnOrd
       /\ table' = out.tbl
       /\ ordinals' = Append(ordinals, <<t, out.value>>)
       /\ UNCHANGED <<debug_assertions, only_inserts>>
       /\ UNCHANGED seqVars
       /\ UNCHANGED concVars
       /\ UNCHANGED <<typesVars, persistentVars, analyzerVars, evalVars, engineVars>>

NextOrd ==
    \/ \E t \in Threads : NextColumnOrd(t)
    \/ \E data \in ConcArgs("insert") : CallInsert(data)
    \/ \E data \in ConcArgs("update") : CallUpdate(data)
    \/ \E data \in ConcArgs("delete") : CallDelete(data)

SpecOrd == Init /\ [][NextOrd]_vars

\* the storage back-end when a specification that does not use it runs
StorageIdle ==
    /\ debug_assertions = TRUE
    /\ table = InMemoryTableHandle
    /\ ret = NoReturn
    /\ inserted = <<>>
    /\ only_inserts = TRUE
    /\ issued = {}
    /\ catalog = InMemoryCatalogHandle
    /\ rwlock = Unlocked
    /\ threads = [t \in Threads |-> Idle(0)]
    /\ cursor = [t \in Threads |-> NoCursor]
    /\ stored_pairs = <<>>
    /\ returned = 0
    /\ ordinals = <<>>

storageVars ==
    <<debug_assertions, table, ret, inserted, only_inserts, issued, catalog,
      rwlock, threads, cursor, stored_pairs, returned, ordinals>>

(***************************************************************************)
(* SpecTypes: a SqlType is taken to its type id and length, as the catalog *)
(* stores it, and built again from them.  The second SqlType is there to   *)
(* compare the type ids of two values.                                     *)
(***************************************************************************)
InitTypes ==
    /\ StorageIdle
    /\ PersistentIdle
    /\ AnalyzerIdle
    /\ EvalIdle /\ EngineIdle
    /\ sql_types \in SqlType \X SqlType
    /\ converted = NotConverted

TypeRoundTrip ==
    /\ converted = NotConverted
    /\ converted' =
           [op |-> "from_type_id",
            type_ids |-> <<type_id(sql_types[1]), type_id(sql_types[2])>>,
            value |-> from_type_id(type_id(sql_types[1]),
                                   unwrap_or(chars_len(sql_types[1]), 0))]
    /\ UNCHANGED sql_types
    /\ UNCHANGED <<storageVars, persistentVars, analyzerVars, evalVars, engineVars>>

NextTypes == TypeRoundTrip

SpecTypes == InitTypes /\ [][NextTypes]_vars

(***************************************************************************)
(* SpecPersistent: a caller creates schemas and tables and writes rows     *)
(* through a persistent DatabaseHandle, drops the handle and opens the     *)
(* same path again.                                                        *)
(***************************************************************************)
ColumnLists ==
    {<<ColumnDefinition("col_test", <<"Bool">>)>>,
     <<ColumnDefinition("col_test", <<"VarChar", DefaultCharsLen>>)>>,
     <<ColumnDefinition("col_test", <<"SmallInt">>), ColumnDefinition("col_test_2", <<"Char", 0>>)>>}

\* rows passed to write_into, the greater key first
PersistentRows ==
    {<<<<Pack(<<1>>), Pack(<<1>>)>>, <<Pack(<<0>>), Pack(<<2>>)>>>>}

\* the full table ids a caller may hold, one past the ids given out included
FullTableIds(dsk) == (0..dsk.schema_ids) \X (0..dsk.table_ids)

\* what the read paths of the handle answer
View(handle, dsk) ==
    [schema_exists |-> [s \in SchemaNames |-> schema_exists(handle, s)],
     table_exists |-> [st \in SchemaNames \X TableNames |-> table_exists(handle, st[1], st[2])],
     table_columns |-> [id \in FullTableIds(dsk) |-> table_columns(handle, id)],
     full_scan |-> [id \in FullTableIds(dsk) |-> full_scan(handle, dsk, id)]]

InitPersistent ==
    /\ StorageIdle
    /\ TypesIdle
    /\ AnalyzerIdle
    /\ EvalIdle /\ EngineIdle
    /\ disk = EmptyDisk
    /\ data_manager = Some(persistent(EmptyDisk))
    /\ restart = NoRestart

\* a call that may change the store, on the open handle
PersistentStep(out) ==
    /\ data_manager' = Some(out.handle)
    /\ disk' = out.disk
    /\ UNCHANGED <<storageVars, typesVars, evalVars, engineVars>>

ExecuteCreateSchema(s) ==
    /\ data_manager # None
    /\ PersistentStep(execute_create_schema(data_manager[1], disk, s))
    /\ restart' = NoRestart
    /\ UNCHANGED analyzerVars

ExecuteCreateTable(s, t, columns) ==
    /\ data_manager # None
    /\ disk.table_ids < MaxTableId
    /\ PersistentStep(execute_create_table(data_manager[1], disk, s, t, columns))
    /\ restart' = NoRestart
    /\ UNCHANGED analyzerVars

WriteInto(full_table_id, rows) ==
    /\ data_manager # None
    /\ PersistentStep(write_into(data_manager[1], disk, full_table_id, rows))
    /\ restart' = NoRestart
    /\ UNCHANGED analyzerVars

\* drop(data_manager)
DropDataManager ==
    /\ data_manager # None
    /\ data_manager' = None
    /\ restart' = [reopened |-> FALSE, view |-> View(data_manager[1], disk)]
    /\ UNCHANGED disk
    /\ UNCHANGED <<storageVars, typesVars, analyzerVars, evalVars, engineVars>>

\* Persistent::persistent(root_path) on the path of the dropped handle
OpenPersistent ==
    /\ data_manager = None
    /\ data_manager' = Some(persistent(disk))
    /\ restart' = [restart EXCEPT !.reopened = TRUE]
    /\ UNCHANGED disk
    /\ UNCHANGED <<storageVars, typesVars, analyzerVars, evalVars, engineVars>>

NextPersistent ==
    \/ \E s \in SchemaNames : ExecuteCreateSchema(s)
    \/ \E s \in SchemaNames, t \in TableNames, columns \in ColumnLists :
           ExecuteCreateTable(s, t, columns)
    \/ \E id \in FullTableIds(disk), rows \in PersistentRows : WriteInto(id, rows)
    \/ DropDataManager
    \/ OpenPersistent

SpecPersistent == InitPersistent /\ [][NextPersistent]_vars

(***************************************************************************)
(* SpecAnalyzer: a caller creates schemas and tables in an in-memory       *)
(* DatabaseHandle and analyses CREATE TABLE statements against it.         *)
(***************************************************************************)
\* the table names of the statements: unqualified, qualified, and with
\* more parts than schema and table
ObjectNames ==
    {<<"only_schema_in_the_name">>,
     <<"first_part", "second_part", "third_part">>,
     <<"first_part", "second_part", "third_part", "fourth_part">>}
    \cup {<<s, t>> : s \in SchemaNames, t \in TableNames}

\* the types of the statements that have two columns
PairedDataTypes ==
    {<<"SmallInt">>, <<"Varchar", None>>, <<"Real">>,
     <<"Custom", <<"strange_type_name_whatever">>>>}

StatementColumns ==
    {<<>>}
    \cup {<<column("column_name", data_type)>> : data_type \in DataType}
    \cup {<<column("column_name", first), column("column_name_2", second)>> :
             first \in PairedDataTypes, second \in PairedDataTypes}

\* create_table_if_not_exists(name, columns, if_not_exists)
CreateTableStatements ==
    [name : ObjectNames, columns : StatementColumns, if_not_exists : BOOLEAN]

\* DatabaseHandle::in_memory()
InitAnalyzer ==
    /\ StorageIdle
    /\ TypesIdle
    /\ AnalyzerIdle
    /\ EvalIdle /\ EngineIdle
    /\ disk = EmptyDisk
    /\ data_manager = Some(persistent(EmptyDisk))
    /\ restart = NoRestart

\* data_definition.create_schema(s)
DataDefinitionCreateSchema(s) ==
    /\ PersistentStep(execute_create_schema(data_manager[1], disk, s))
    /\ analysis' = NotAnalysed
    /\ UNCHANGED restart

\* data_definition.create_table(schema_id, t, &[])
DataDefinitionCreateTable(s, t) ==
    /\ disk.table_ids < MaxTableId
    /\ PersistentStep(execute_create_table(data_manager[1], disk, s, t, <<>>))
    /\ analysis' = NotAnalysed
    /\ UNCHANGED restart

\* analyzer.analyze(statement); the caller holds the result until its next
\* call on the DatabaseHandle
Analyze(statement) ==
    LET out == analyze_create_table(data_manager[1], disk, statement)
    IN /\ analysis = NotAnalysed
       /\ PersistentStep(out)
       /\ analysis' = [op |-> "analyze", statement |-> statement,
                       before |-> <<data_manager[1], disk>>, result |-> out.result]
       /\ UNCHANGED restart

NextAnalyzer ==
    \/ \E s \in SchemaNames : DataDefinitionCreateSchema(s)
    \/ \E s \in SchemaNames, t \in TableNames : DataDefinitionCreateTable(s, t)
    \/ \E statement \in CreateTableStatements : Analyze(statement)

SpecAnalyzer == InitAnalyzer /\ [][NextAnalyzer]_vars

(***************************************************************************)
(* SpecDescribe: a caller creates schemas and tables in an in-memory       *)
(* DataDefinition and has INSERT statements described against it.          *)
(***************************************************************************)
\* insert_statement(schema, table), one with an unqualified name, and a
\* statement that is no INSERT
DescribedStatements ==
    [kind : {"Insert"},
     table_name : {<<s, t>> : s \in SchemaNames, t \in TableNames}
                     \cup {<<"only_schema_in_the_name">>}]
    \cup [kind : {"Update"}, table_name : {<<s, t>> : s \in SchemaNames, t \in TableNames}]

\* metadata.create_table(DEFAULT_CATALOG, s, t, columns)
MetadataCreateTable(s, t, columns) ==
    /\ disk.table_ids < MaxTableId
    /\ PersistentStep(execute_create_table(data_manager[1], disk, s, t, columns))
    /\ analysis' = NotAnalysed
    /\ UNCHANGED restart

\* analyzer.describe(statement); the caller holds the result until its next
\* call on the DataDefinition
Describe(statement) ==
    /\ analysis = NotAnalysed
    /\ analysis' = [op |-> "describe", statement |-> statement,
                    before |-> <<data_manager[1], disk>>,
                    result |-> describe(data_manager[1], statement)]
    /\ UNCHANGED <<disk, data_manager, restart>>
    /\ UNCHANGED <<storageVars, typesVars, evalVars, engineVars>>

NextDescribe ==
    \/ \E s \in SchemaNames : DataDefinitionCreateSchema(s)
    \/ \E s \in SchemaNames, t \in TableNames, columns \in ColumnLists \cup {<<>>} :
           MetadataCreateTable(s, t, columns)
    \/ \E statement \in DescribedStatements : Describe(statement)

SpecDescribe == InitAnalyzer /\ [][NextDescribe]_vars

(***************************************************************************)
(* SpecEval: an expression tree is evaluated against two rows, each with   *)
(* a sender of its own.                                                    *)
(***************************************************************************)
\* the literal operands: 20, 5, 3, 0, 20.1, 5.2, "str-1", "str-2"
Literals ==
    {Number(20, 1), Number(5, 1), Number(3, 1), Number(0, 1),
     Number(201, 10), Number(52, 10), String("str-1"), String("str-2")}

\* the column map of the evaluator: name -> ordinal
ColumnOrdinals == ("name" :> 0) @@ ("name_2" :> 1)

\* the rows: one datum for each column
Rows ==
    {<<Number(10, 1), String("str-1")>>,
     <<Number(3, 1), Number(52, 10)>>,
     <<String("str-2"), Number(10, 1)>>}

Leaves == {Value(v) : v \in Literals} \cup {Column(name) : name \in DOMAIN ColumnOrdinals}

\* the operands of the trees that have a binary operation as an operand
InnerLeaves ==
    {Value(Number(20, 1)), Value(Number(3, 1)), Value(String("str-1")), Column("name")}

InnerTrees ==
    {Binary(op, lhs, rhs) : op \in {"Sub", "Div", "Concat"},
                            lhs \in InnerLeaves, rhs \in InnerLeaves}

ScalarOps ==
    Leaves
    \cup {Binary(op, lhs, rhs) : op \in BinaryOp, lhs \in Leaves, rhs \in Leaves}
    \cup {Binary(op, lhs, rhs) : op \in {"Add", "Concat", "BitwiseOr"},
                                 lhs \in InnerTrees, rhs \in InnerLeaves}
    \cup {Binary(op, lhs, rhs) : op \in {"Add", "Concat", "BitwiseOr"},
                                 lhs \in InnerLeaves, rhs \in InnerTrees}

InitEval ==
    /\ StorageIdle
    /\ TypesIdle
    /\ PersistentIdle
    /\ AnalyzerIdle
    /\ EngineIdle
    /\ scalar_op \in ScalarOps
    /\ eval_rows \in Rows \X Rows
    /\ evaluated = NotEvaluated

\* eval.eval(&row, &scalar_op) with the k-th row and a new sender
Eval(k) ==
    /\ evaluated[k] = None
    /\ evaluated' = [evaluated EXCEPT ![k] = Some(eval(ColumnOrdinals, eval_rows[k], scalar_op))]
    /\ UNCHANGED <<scalar_op, eval_rows>>
    /\ UNCHANGED <<storageVars, typesVars, persistentVars, analyzerVars, engineVars>>

NextEval == \E k \in {1, 2} : Eval(k)

SpecEval == InitEval /\ [][NextEval]_vars


(***************************************************************************)
(* Claims checked under Spec.  A call on a handle whose lock is poisoned   *)
(* panics in read().unwrap() / write().unwrap() before it touches the      *)
(* table, so the claims about what a call does speak of handles that are   *)
(* not poisoned.                                                           *)
(***************************************************************************)
\* the rows select() is to return after the values vs were inserted
ExpectedRows(vs) == [i \in 1..Len(vs) |-> <<Pack(<<i - 1>>), vs[i]>>]

\* C1: after insert calls carrying v1..vn (in any batching) into a fresh
\* table, with no update or delete, select() returns exactly the rows
\* (pack(i-1), vi), i = 1..n, in that order.  Violated by the build without
\* debug assertions, where insert stores nothing.
C1_SelectReturnsInsertedRows ==
    only_inserts =>
        /\ ~select(table).panicked
        /\ select(table).rows = ExpectedRows(inserted)

\* C1 restricted to the build with debug assertions (holds there).
C1_WithDebugAssertions == debug_assertions => C1_SelectReturnsInsertedRows

\* C2: the key of every row a call of insert stores is strictly greater than
\* the key of every row insert has stored before, deleted rows included; the
\* record ids start at 0 and grow by one per inserted value.
C2_RecordIdsNeverReused ==
    \A data \in InsertArgs :
        LET out == insert(table, data, debug_assertions)
        IN ~table.poisoned =>
            /\ \A i \in 1..Len(out.stored) :
                   /\ \A old \in issued : BinaryLess(old, out.stored[i])
                   /\ out.stored[i] = Pack(<<table.record_ids + i - 1>>)
                   /\ out.tbl.records[out.stored[i]] = data[i]
            /\ ~out.panicked /\ out.n = Len(data)
            /\ out.tbl.record_ids = table.record_ids + Len(data)
            /\ debug_assertions => Len(out.stored) = Len(data)
            /\ issued \subseteq {Pack(<<id>>) : id \in 0..(table.record_ids - 1)}

\* C2 witness: a row was inserted, deleted, and a later insert stored a row
\* under a greater key.
C2_Witness ==
    /\ ret.op = "insert" /\ ret.n >= 1 /\ ~ret.panicked
    /\ \E old \in issued \ DOMAIN table.records :
           \E k \in DOMAIN table.records : BinaryLess(old, k)

\* the value the last pair of data that lists key carries
LastValueFor(data, key) ==
    LET last == CHOOSE i \in 1..Len(data) :
                    /\ data[i][1] = key
                    /\ \A j \in (i + 1)..Len(data) : data[j][1] # key
    IN data[last][2]

UpdatedKeys(data) == {data[i][1] : i \in 1..Len(data)}

\* C6: update(pairs) with every key of pairs present in the table: each
\* listed key then maps to its new value (the last one listed for it), every
\* other row is unchanged, the set of keys and the record-id counter are
\* unchanged, and the call returns the number of pairs.
C6_UpdateOfPresentKeys ==
    \A data \in UpdateArgs :
        LET out == update(table, data, debug_assertions)
        IN (~table.poisoned /\ UpdatedKeys(data) \subseteq DOMAIN table.records) =>
            /\ ~out.panicked /\ out.n = Len(data)
            /\ DOMAIN out.tbl.records = DOMAIN table.records
            /\ \A k \in DOMAIN table.records :
                   out.tbl.records[k] = IF k \in UpdatedKeys(data)
                                        THEN LastValueFor(data, k)
                                        ELSE table.records[k]
            /\ out.tbl.record_ids = table.record_ids
            /\ out.tbl.column_ords = table.column_ords
            /\ ~out.tbl.poisoned

\* C6 witness: an update of two pairs returned 2 on a table of two rows.
C6_Witness ==
    /\ ret.op = "update" /\ ret.n = 2 /\ ~ret.panicked /\ ~table.poisoned
    /\ Cardinality(DOMAIN table.records) = 2

\* the rows that an update with data gave the value listed for them, from
\* the records before and after the call
ReplacedRows(before, data, after) ==
    {k \in DOMAIN before \cap DOMAIN after :
        k \in UpdatedKeys(data) /\ after[k] = LastValueFor(data, k)}

\* C7: for every argument, also with keys that are not in the table, update
\* never adds a row and returns the number of rows whose value it replaced.
\* Violated: with debug assertions an absent key is inserted before the
\* assertion fails; without them nothing is replaced and the length of the
\* argument is returned.
C7_UpdateNeverAddsRows ==
    [][\A data \in UpdateArgs :
          (CallUpdate(data) /\ ~table.poisoned) =>
              /\ DOMAIN table'.records = DOMAIN table.records
              /\ ~ret'.panicked
              /\ ret'.n = Cardinality(ReplacedRows(table.records, data, table'.records))]_vars

\* C8: delete(keys) removes exactly the rows whose key is in the table and in
\* keys, leaves every other row unchanged and returns the number of rows it
\* removed; absent keys are not counted and a key listed twice counts once.
C8_DeleteRemovesListedRows ==
    \A data \in DeleteArgs :
        LET out == delete(table, data, debug_assertions)
            hit == DOMAIN table.records \cap Range(data)
        IN ~table.poisoned =>
            /\ ~out.panicked
            /\ DOMAIN out.tbl.records = DOMAIN table.records \ hit
            /\ \A k \in DOMAIN out.tbl.records : out.tbl.records[k] = table.records[k]
            /\ out.n = Cardinality(hit)
            /\ out.tbl.record_ids = table.record_ids
            /\ ~out.tbl.poisoned

\* C8 witness: a delete removed one row of two and returned 1.
C8_Witness ==
    /\ ret.op = "delete" /\ ret.n = 1 /\ ~ret.panicked /\ ~table.poisoned
    /\ table.record_ids = 2 /\ Cardinality(DOMAIN table.records) = 1

(***************************************************************************)
(* Claims checked under SpecCatalog.                                       *)
(***************************************************************************)
\* C3: select, insert, update and delete reached through
\* catalog.work_with(schema, |s| s.work_with(table, op)) return None exactly
\* when the schema does not exist, Some(None) exactly when the schema exists
\* and the table does not, and Some(Some(result of op)) otherwise; in the two
\* failure cases op is not run and the catalog is unchanged.  (When op
\* panics, the panic unwinds through both work_with calls and there is no
\* returned value to speak of.)
C3_NestedOptionOfWorkWith ==
    \A s \in SchemaNames, t \in TableNames, op \in TableOps :
        \A data \in CatalogArgs(op) :
          \A out \in {on_table(catalog, s, t, op, data, debug_assertions)} :
            LET has_schema == s \in DOMAIN catalog.schemas
                has_table == <<s, t>> \in TablesOf(catalog)
            IN /\ (~out.panicked /\ out.value = None) <=> ~has_schema
               /\ (~out.panicked /\ out.value = Some(None)) <=> (has_schema /\ ~has_table)
               /\ ~has_table => out.self = catalog /\ ~out.panicked
               /\ has_table =>
                    \A direct \in {TableCall(op, TableAt(catalog, <<s, t>>), data,
                                           debug_assertions)} :
                       /\ out.panicked = direct.panicked
                       /\ ~out.panicked => out.value = Some(Some(direct.value))
                       /\ TablesOf(out.self) = TablesOf(catalog)
                       /\ DOMAIN out.self.schemas = DOMAIN catalog.schemas
                       /\ \A st \in TablesOf(catalog) :
                              TableAt(out.self, st) = IF st = <<s, t>> THEN direct.self
                                                      ELSE TableAt(catalog, st)

\* C3 witness: a delete on a missing table of an existing schema returned
\* Some(None) while the schema holds another table with a row.
C3_Witness ==
    /\ ret.op = "delete" /\ ~ret.panicked /\ ret.value = Some(None)
    /\ \E st \in TablesOf(catalog) : DOMAIN TableAt(catalog, st).records # {}
    /\ \E s \in SchemaNames : s \notin DOMAIN catalog.schemas

\* C4: create_schema / create_table return true exactly when the name was
\* absent, and the name is present afterwards; drop_schema / drop_table
\* return true exactly when the name was present, and work_with on it
\* returns None afterwards; a call that returns false leaves the catalog
\* unchanged; a call that returns true changes nothing but the name it is
\* about, so that the same table name in two schemas names two tables.
C4_NamespaceOperations ==
    /\ \A s \in SchemaNames :
        \A created \in {create_schema(catalog, s)}, dropped \in {drop_schema(catalog, s)} :
          LET was == s \in DOMAIN catalog.schemas
          IN /\ created.value = ~was /\ ~created.panicked
             /\ DOMAIN created.self.schemas = DOMAIN catalog.schemas \cup {s}
             /\ ~created.value => created.self = catalog
             /\ created.value => created.self.schemas[s] = InMemorySchemaHandle
             /\ \A o \in DOMAIN catalog.schemas \ {s} :
                    /\ created.self.schemas[o] = catalog.schemas[o]
                    /\ dropped.self.schemas[o] = catalog.schemas[o]
             /\ dropped.value = was /\ ~dropped.panicked
             /\ DOMAIN dropped.self.schemas = DOMAIN catalog.schemas \ {s}
             /\ ~dropped.value => dropped.self = catalog
             /\ catalog_work_with(dropped.self, s, SchemaConstant(1), FALSE).value = None
    /\ \A s \in DOMAIN catalog.schemas, t \in TableNames :
        \A created \in {create_table(catalog, s, t)}, dropped \in {drop_table(catalog, s, t)} :
          LET was == <<s, t>> \in TablesOf(catalog)
          IN /\ created.value = Some(~was) /\ ~created.panicked
             /\ TablesOf(created.self) = TablesOf(catalog) \cup {<<s, t>>}
             /\ was => created.self = catalog
             /\ ~was => TableAt(created.self, <<s, t>>) = InMemoryTableHandle
             /\ \A st \in TablesOf(catalog) \ {<<s, t>>} :
                    /\ TableAt(created.self, st) = TableAt(catalog, st)
                    /\ TableAt(dropped.self, st) = TableAt(catalog, st)
             /\ dropped.value = Some(was) /\ ~dropped.panicked
             /\ TablesOf(dropped.self) = TablesOf(catalog) \ {<<s, t>>}
             /\ ~was => dropped.self = catalog
             /\ DOMAIN created.self.schemas = DOMAIN catalog.schemas
             /\ DOMAIN dropped.self.schemas = DOMAIN catalog.schemas
             /\ on_table(dropped.self, s, t, "select", <<>>, debug_assertions).value
                    = Some(None)

\* C4 witness: a create_table returned false for a table that holds a row,
\* while the table of the same name in the other schema holds none.
C4_Witness ==
    /\ ret.op = "create_table" /\ ret.value = Some(FALSE)
    /\ \E t \in TableNames, s1 \in SchemaNames, s2 \in SchemaNames :
          /\ <<s1, t>> \in TablesOf(catalog) /\ <<s2, t>> \in TablesOf(catalog)
          /\ TableAt(catalog, <<s1, t>>).record_ids = 1
          /\ DOMAIN TableAt(catalog, <<s1, t>>).records # {}
          /\ TableAt(catalog, <<s2, t>>).record_ids = 0

\* C5: drop_schema(s) followed by create_schema(s) leaves schema s existing
\* and empty, whatever tables and rows it held: both calls return true,
\* work_with on every table name returns None, create_table of every name
\* returns true, and the table so created has no rows and issues record id
\* 0 first; the other schemas are untouched.
C5_RecreatedSchemaIsEmpty ==
    \A s \in DOMAIN catalog.schemas :
      \A dropped \in {drop_schema(catalog, s)} :
        \A created \in {create_schema(dropped.self, s)} :
           /\ dropped.value /\ created.value
           /\ DOMAIN created.self.schemas = DOMAIN catalog.schemas
           /\ \A o \in DOMAIN catalog.schemas \ {s} :
                  created.self.schemas[o] = catalog.schemas[o]
           /\ \A t \in TableNames :
                \A again \in {create_table(created.self, s, t)} :
                  \A first \in {insert(TableAt(again.self, <<s, t>>), <<Pack(<<1>>)>>,
                                        debug_assertions)} :
                     /\ on_table(created.self, s, t, "select", <<>>,
                                  debug_assertions).value = Some(None)
                     /\ again.value = Some(TRUE)
                     /\ on_table(again.self, s, t, "select", <<>>,
                                  debug_assertions).value
                            = Some(Some([n |-> 0, rows |-> <<>>]))
                     /\ TableAt(again.self, <<s, t>>).record_ids = 0
                     /\ \A i \in 1..Len(first.stored) : first.stored[i] = Pack(<<0>>)
                     /\ DOMAIN first.tbl.records \subseteq {Pack(<<0>>)}

\* C5 witness: create_schema has just created again a schema that was
\* dropped while a table of it had been inserted into, and it is empty.
C5_Witness ==
    /\ ret.op = "create_schema" /\ ret.value = TRUE /\ ret.recreated
    /\ \E s \in DOMAIN catalog.schemas : catalog.schemas[s] = InMemorySchemaHandle

(***************************************************************************)
(* Claims checked under SpecConc.                                          *)
(***************************************************************************)
\* thread t stores a new Cursor in this step
CollectsNow(t) == threads[t].pc = "locked" /\ threads[t].op = "select"

\* C9: a Cursor returned by select() is a snapshot: no step of an insert,
\* update or delete that runs after the rows were collected, by any thread,
\* changes the sequence of rows the Cursor yields.
C9_CursorIsSnapshot ==
    [][\A t \in Threads :
          (cursor[t].held /\ ~CollectsNow(t)) =>
              /\ cursor'[t].held
              /\ CursorItems(cursor'[t], table') = CursorItems(cursor[t], table)]_vars

\* C9 witness: a thread holds a Cursor with a row while the table has
\* changed since and holds other rows.
C9_Witness ==
    \E t \in Threads :
        /\ cursor[t].held /\ cursor[t].rows # <<>>
        /\ CursorItems(cursor[t], table) # MapIter(table.records)
        /\ threads[t].pc = "idle"

\* some thread has made a call, and no insert call is in progress
InsertsFinished ==
    /\ \E t \in Threads : threads[t].calls > 0
    /\ \A t \in Threads : threads[t].op # "insert"

\* C10: when only insert (and select) calls run, concurrently, then once all
\* of them have returned every inserted value is stored under a key of its
\* own - no two values got the same record id, none was overwritten or lost
\* - and the table holds as many rows as the sum of the returned counts.
\* Violated by the build without debug assertions, where insert stores
\* nothing.
C10_ConcurrentInsertsKeepEveryValue ==
    (only_inserts /\ InsertsFinished) =>
        /\ \A i, j \in 1..Len(stored_pairs) :
               i # j => stored_pairs[i][1] # stored_pairs[j][1]
        /\ \A i \in 1..Len(stored_pairs) :
               /\ stored_pairs[i][1] \in DOMAIN table.records
               /\ table.records[stored_pairs[i][1]] = stored_pairs[i][2]
        /\ Cardinality(DOMAIN table.records) = returned

\* C10 restricted to the build with debug assertions (holds there).
C10_WithDebugAssertions == debug_assertions => C10_ConcurrentInsertsKeepEveryValue

(***************************************************************************)
(* Claims checked under SpecOrd.                                           *)
(***************************************************************************)
\* C11: next_column_ord returns 0 on its first call and one more on each
\* later call, whichever threads call it: the i-th call over all threads
\* returns i - 1, so no two calls return the same ordinal; and the next
\* ordinal is the number of calls made so far whatever rows were inserted,
\* updated or deleted in between.
C11_ColumnOrdinalsCountUp ==
    /\ \A i \in 1..Len(ordinals) : ordinals[i][2] = i - 1
    /\ next_column_ord(table).value = Len(ordinals)

\* C11 witness: two threads have taken ordinals, and a row was inserted and
\* deleted on the way.
C11_Witness ==
    /\ Len(ordinals) >= 2 /\ ordinals[1][1] # ordinals[2][1]
    /\ table.record_ids > 0 /\ ret.op = "delete" /\ ret.n > 0

(***************************************************************************)
(* Claims checked under SpecTypes.                                         *)
(***************************************************************************)
\* C13: for every SqlType t, t.type_id() lies in 0..7, two values of
\* distinct variants have distinct type ids, and
\* SqlType::from_type_id(t.type_id(), t.chars_len().unwrap_or(0)) is t.
C13_TypeIdRoundTrip ==
    converted.op = "from_type_id" =>
        /\ converted.type_ids[1] \in 0..7
        /\ sql_types[1][1] # sql_types[2][1]
               => converted.type_ids[1] # converted.type_ids[2]
        /\ converted.value = sql_types[1]

\* C13 witness: a VarChar of the default length went through the round
\* trip, next to a Char of the same length.
C13_Witness ==
    /\ converted.op = "from_type_id"
    /\ sql_types = <<(<<"VarChar", DefaultCharsLen>>), (<<"Char", DefaultCharsLen>>)>>
    /\ converted.type_ids = <<2, 1>>

(***************************************************************************)
(* Claims checked under SpecPersistent.                                    *)
(***************************************************************************)
\* C12: dropping the persistent handle and opening the same path again
\* preserves everything created before: schema_exists and table_exists
\* answer as before with the same ids, table_columns returns the same
\* (ordinal, column definition) lists and full_scan the same rows in the
\* same order.
C12_RestartPreservesEverything ==
    restart.reopened => View(data_manager[1], disk) = restart.view

\* C12 witness: the handle was opened again on a store that holds two
\* schemas, a table of two columns and a table with two rows.
C12_Witness ==
    /\ restart.reopened
    /\ DOMAIN data_manager[1].schemas = SchemaNames
    /\ \E id \in DOMAIN data_manager[1].columns : Len(data_manager[1].columns[id]) = 2
    /\ \E id \in DOMAIN disk.families : Cardinality(DOMAIN disk.families[id]) = 2

(***************************************************************************)
(* Claims checked under SpecAnalyzer.                                      *)
(***************************************************************************)
\* the statement was analysed and its name resolved to a schema that exists
AnalysedInSchema ==
    /\ analysis.op = "analyze"
    /\ Len(analysis.statement.name) = 2
    /\ analysis.statement.name[1] \in DOMAIN analysis.before[1].schemas

\* the SqlType the conversion is to give for a DataType: None for the
\* types it rejects
MappedSqlType(data_type) ==
    CASE data_type = <<"SmallInt">> -> Some(<<"SmallInt">>)
      [] data_type = <<"Int">> -> Some(<<"Integer">>)
      [] data_type = <<"BigInt">> -> Some(<<"BigInt">>)
      [] data_type = <<"Boolean">> -> Some(<<"Bool">>)
      [] data_type[1] = "Char" ->
            Some(<<"Char", IF data_type[2] = None THEN 255 ELSE data_type[2][1]>>)
      [] data_type[1] = "Varchar" ->
            Some(<<"VarChar", IF data_type[2] = None THEN 255 ELSE data_type[2][1]>>)
      [] OTHER -> None

\* C14: the conversion maps SmallInt to SmallInt, Int to Integer, BigInt to
\* BigInt, Boolean to Bool, Char(len) to Char(len or 255) and Varchar(len)
\* to VarChar(len or 255) and rejects every other DataType; a CREATE TABLE
\* with a rejected column type is analysed to type_is_not_supported
\* carrying the raw name of the (first) rejected type.
C14_DataTypeConversion ==
    AnalysedInSchema =>
        LET columns == analysis.statement.columns
            rejected == {i \in 1..Len(columns) : MappedSqlType(columns[i].data_type) = None}
        IN IF rejected = {}
           THEN /\ analysis.result[1] = "Ok"
                /\ LET column_defs == analysis.result[2][2].column_defs
                   IN /\ Len(column_defs) = Len(columns)
                      /\ \A i \in 1..Len(columns) :
                            Some(column_defs[i].sql_type) = MappedSqlType(columns[i].data_type)
           ELSE LET first == CHOOSE i \in rejected : \A j \in rejected : i <= j
                    data_type == columns[first].data_type
                IN analysis.result =
                       Err(type_is_not_supported(
                               IF data_type[1] = "Custom" THEN data_type[2][1]
                               ELSE TypeName(data_type)))

\* C14 witness: a statement whose first column is a Varchar without a
\* length and whose second column has a custom type was analysed.
C14_Witness ==
    /\ AnalysedInSchema
    /\ Len(analysis.statement.columns) = 2
    /\ analysis.statement.columns[1].data_type = <<"Varchar", None>>
    /\ analysis.statement.columns[2].data_type[1] = "Custom"
    /\ analysis.result = Err(type_is_not_supported("strange_type_name_whatever"))

\* C15: a table name is accepted only when it has exactly two parts; a
\* name of one part gives table_naming_error("Unsupported table name
\* '<name>'. All table names must be qualified"), a name of more than two
\* parts gives table_naming_error("Unable to process table name '<parts
\* joined by dots>'"), whatever schemas and tables exist.
C15_TableNameHasTwoParts ==
    analysis.op = "analyze" =>
        LET name == analysis.statement.name
        IN /\ name = <<"only_schema_in_the_name">> =>
                analysis.result = Err(table_naming_error(
                    "Unsupported table name 'only_schema_in_the_name'. All table names must be qualified"))
           /\ name = <<"first_part", "second_part", "third_part">> =>
                analysis.result = Err(table_naming_error(
                    "Unable to process table name 'first_part.second_part.third_part'"))
           /\ name = <<"first_part", "second_part", "third_part", "fourth_part">> =>
                analysis.result = Err(table_naming_error(
                    "Unable to process table name 'first_part.second_part.third_part.fourth_part'"))
           /\ Len(name) # 2 <=> analysis.result[1] = "Err" /\ analysis.result[2][1] = "TableNamingError"

\* C15 witness: a name of three parts was analysed against a catalog that
\* holds a schema and a table.
C15_Witness ==
    /\ analysis.op = "analyze"
    /\ Len(analysis.statement.name) = 3
    /\ analysis.before[1].tables # EmptyMap

\* C16: with supported column types the analysis of CREATE TABLE
\* schema.table depends on the schema only: schema_does_not_exist(schema)
\* when it does not exist, and otherwise a CreateTable description with the
\* schema id, the names, the column definitions in statement order and the
\* if_not_exists flag of the statement, whether or not the table exists
\* already; the analysis leaves the catalog as it was.
C16_CreateTableDependsOnSchemaOnly ==
    /\ analysis.op = "analyze" => <<data_manager[1], disk>> = analysis.before
    /\ ( /\ analysis.op = "analyze"
         /\ Len(analysis.statement.name) = 2
         /\ \A i \in 1..Len(analysis.statement.columns) :
               MappedSqlType(analysis.statement.columns[i].data_type) # None )
       => LET statement == analysis.statement
              schemas == analysis.before[1].schemas
          IN IF statement.name[1] \notin DOMAIN schemas
             THEN analysis.result = Err(schema_does_not_exist(statement.name[1]))
             ELSE analysis.result =
                    Ok(<<"CreateTable",
                         [table_info |-> [schema_id |-> schemas[statement.name[1]],
                                          schema_name |-> statement.name[1],
                                          table_name |-> statement.name[2]],
                          column_defs |->
                              [i \in 1..Len(statement.columns) |->
                                  [name |-> statement.columns[i].name,
                                   sql_type |-> MappedSqlType(statement.columns[i].data_type)[1]]],
                          if_not_exists |-> statement.if_not_exists]>>)

\* C16 witness: a CREATE TABLE without IF NOT EXISTS and with two columns
\* was analysed for a table that exists already, and described.
C16_Witness ==
    /\ AnalysedInSchema
    /\ ~analysis.statement.if_not_exists
    /\ Len(analysis.statement.columns) = 2
    /\ <<analysis.before[1].schemas[analysis.statement.name[1]], analysis.statement.name[2]>>
           \in DOMAIN analysis.before[1].tables
    /\ analysis.result[1] = "Ok"

(***************************************************************************)
(* Claims checked under SpecDescribe.                                      *)
(***************************************************************************)
\* C17: describe of an INSERT into schema.table gives, in every catalog
\* state, SchemaDoesNotExist(schema) when the schema is missing,
\* TableDoesNotExist("schema.table") when the schema exists and the table
\* is missing, and otherwise Description::Insert with the (schema_id,
\* table_id) of the table and the SQL types of its columns in column order.
C17_DescribeInsert ==
    ( /\ analysis.op = "describe"
      /\ analysis.statement.kind = "Insert"
      /\ Len(analysis.statement.table_name) = 2 )
    => LET name == analysis.statement.table_name
           handle == analysis.before[1]
       IN IF name[1] \notin DOMAIN handle.schemas
          THEN analysis.result = Err(<<"SchemaDoesNotExist", name[1]>>)
          ELSE IF <<handle.schemas[name[1]], name[2]>> \notin DOMAIN handle.tables
          THEN analysis.result = Err(<<"TableDoesNotExist", name[1] \o "." \o name[2]>>)
          ELSE LET schema_id == handle.schemas[name[1]]
                   table_id == handle.tables[<<schema_id, name[2]>>]
                   columns == table_columns(handle, <<schema_id, table_id>>)[2]
               IN analysis.result =
                      Ok(<<"Insert",
                           [table_id |-> <<schema_id, table_id>>,
                            sql_types |-> [i \in 1..Len(columns) |-> columns[i][2].sql_type]]>>)

\* C17 witness: an INSERT into the second table of the second schema, a
\* table of two columns, was described.
C17_Witness ==
    /\ analysis.op = "describe"
    /\ analysis.result[1] = "Ok"
    /\ analysis.result[2][1] = "Insert"
    /\ analysis.result[2][2].table_id = <<1, 1>>
    /\ Len(analysis.result[2][2].sql_types) = 2

(***************************************************************************)
(* Claims checked under SpecEval.                                          *)
(***************************************************************************)
\* the tree is a binary operation of the operators ops on two literals
\* and has been evaluated against the k-th row
LiteralOperation(k, ops) ==
    /\ evaluated[k] # None
    /\ scalar_op[1] = "Binary"
    /\ scalar_op[2] \in ops
    /\ scalar_op[3][1] = "Value"
    /\ scalar_op[4][1] = "Value"

\* eval returned Err(()) and sent the one error undefined_function(symbol,
\* left_type, right_type)
FailedWith(out, symbol, left_type, right_type) ==
    /\ out.result = <<"Err", <<>>>>
    /\ out.sent = <<<<"Err", <<"UndefinedFunction", symbol, left_type, right_type>>>>>>

\* C18: on two literal operands + - * / % succeed only on (Number, Number)
\* and || succeeds only on (String, String), giving the concatenation;
\* every other combination makes eval return Err(()) and send exactly one
\* undefined_function(symbol, type of lhs, type of rhs); a successful
\* evaluation sends nothing.
C18_BinaryOperatorTyping ==
    \A k \in {1, 2} :
        LiteralOperation(k, {"Add", "Sub", "Mul", "Div", "Mod", "Concat"}) =>
            LET op == scalar_op[2]
                lhs == scalar_op[3][2]
                rhs == scalar_op[4][2]
                out == evaluated[k][1]
                symbol == CASE op = "Add" -> "+" [] op = "Sub" -> "-" [] op = "Mul" -> "*"
                            [] op = "Div" -> "/" [] op = "Mod" -> "%" [] op = "Concat" -> "||"
                general(v) == IF v[1] = "Number" THEN "NUMBER" ELSE "STRING"
                number(n, d) == <<"Ok", <<"Value", <<"Number", <<n, d>>>>>>>>
                is(o, l, r) == op = o /\ lhs = <<"Number", l>> /\ rhs = <<"Number", r>>
            IN /\ IF op # "Concat" /\ lhs[1] = "Number" /\ rhs[1] = "Number"
                  THEN \/ op \in {"Div", "Mod"} /\ rhs[2][1] = 0
                       \/ /\ out.result[1] = "Ok"
                          /\ out.result[2][1] = "Value"
                          /\ out.result[2][2][1] = "Number"
                          /\ out.sent = <<>>
                  ELSE IF op = "Concat" /\ lhs[1] = "String" /\ rhs[1] = "String"
                  THEN /\ out.result = <<"Ok", <<"Value", <<"String", lhs[2] \o rhs[2]>>>>>>
                       /\ out.sent = <<>>
                  ELSE FailedWith(out, symbol, general(lhs), general(rhs))
               /\ is("Add", <<20, 1>>, <<5, 1>>) => out.result = number(25, 1)
               /\ is("Sub", <<20, 1>>, <<5, 1>>) => out.result = number(15, 1)
               /\ is("Mul", <<20, 1>>, <<5, 1>>) => out.result = number(100, 1)
               /\ is("Div", <<20, 1>>, <<5, 1>>) => out.result = number(4, 1)
               /\ is("Mod", <<20, 1>>, <<3, 1>>) => out.result = number(2, 1)
               /\ is("Add", <<201, 10>>, <<26, 5>>) => out.result = number(253, 10)
               /\ is("Sub", <<201, 10>>, <<26, 5>>) => out.result = number(149, 10)

\* C18 witness: "str-1" + "str-2" was evaluated and failed with
\* undefined_function("+", "STRING", "STRING").
C18_Witness ==
    /\ LiteralOperation(1, {"Add"})
    /\ scalar_op[3] = <<"Value", <<"String", "str-1">>>>
    /\ scalar_op[4] = <<"Value", <<"String", "str-2">>>>
    /\ FailedWith(evaluated[1][1], "+", "STRING", "STRING")

\* C19: & and | succeed exactly when both operands are numbers without a
\* fractional part, giving the bitwise result (20 & 5 = 4, 20 | 5 = 21);
\* on two numbers with a fractional part eval returns Err(()) and sends
\* undefined_function(op, "FLOAT", "FLOAT"), on two strings
\* undefined_function(op, "STRING", "STRING").
C19_BitwiseOperators ==
    \A k \in {1, 2} :
        LiteralOperation(k, {"BitwiseAnd", "BitwiseOr"}) =>
            LET op == scalar_op[2]
                lhs == scalar_op[3][2]
                rhs == scalar_op[4][2]
                out == evaluated[k][1]
                symbol == IF op = "BitwiseAnd" THEN "&" ELSE "|"
                whole(v) == v[1] = "Number" /\ v[2][2] = 1
                fractional(v) == v[1] = "Number" /\ v[2][2] # 1
            IN /\ out.result[1] = "Ok" <=> whole(lhs) /\ whole(rhs)
               /\ out.result[1] = "Ok" =>
                     /\ out.result[2][2][1] = "Number"
                     /\ out.result[2][2][2][2] = 1
                     /\ out.sent = <<>>
               /\ lhs = <<"Number", <<20, 1>>>> /\ rhs = <<"Number", <<5, 1>>>> =>
                     out.result = <<"Ok", <<"Value", <<"Number",
                                      <<IF op = "BitwiseAnd" THEN 4 ELSE 21, 1>>>>>>>>
               /\ fractional(lhs) /\ fractional(rhs) => FailedWith(out, symbol, "FLOAT", "FLOAT")
               /\ lhs[1] = "String" /\ rhs[1] = "String" =>
                     FailedWith(out, symbol, "STRING", "STRING")

\* C19 witness: 20.1 & 5.2 was evaluated and failed with
\* undefined_function("&", "FLOAT", "FLOAT").
C19_Witness ==
    /\ LiteralOperation(2, {"BitwiseAnd"})
    /\ scalar_op[3] = <<"Value", <<"Number", <<201, 10>>>>>>
    /\ scalar_op[4] = <<"Value", <<"Number", <<26, 5>>>>>>
    /\ FailedWith(evaluated[2][1], "&", "FLOAT", "FLOAT")

\* the tree has no Column node
RECURSIVE NoColumn(_)
NoColumn(tree) ==
    CASE tree[1] = "Column" -> FALSE
      [] tree[1] = "Value" -> TRUE
      [] tree[1] = "Binary" -> NoColumn(tree[3]) /\ NoColumn(tree[4])

EngineSchema == "public"
EngineTable == <<"public", "t1">>
EngineTableId == <<0, 0>>
EngineColumns ==
    <<ColumnDefinition("a", <<"SmallInt">>),
      ColumnDefinition("b", <<"VarChar", DefaultCharsLen>>)>>

\* the catalog and the storage behind the engine: whether the table exists
\* and how many rows it holds
Metadata(exists, stored) == [exists |-> exists, stored |-> stored]

\* the handle the analyzer reads the catalog through
MetadataView(meta) ==
    [schemas |-> (EngineSchema :> 0),
     tables |-> IF meta.exists THEN (<<0, EngineTable[2]>> :> 0) ELSE EmptyMap,
     columns |-> IF meta.exists
                 THEN (0 :> [i \in 1..Len(EngineColumns) |-> <<i - 1, EngineColumns[i]>>])
                 ELSE EmptyMap]

\* mutant of into_pg_type: VarChar is sent as Char
into_pg_type_chars(sql_type) ==
    CASE sql_type[1] = "Bool" -> <<"PgType::Bool">>
      [] sql_type[1] = "Char" -> <<"PgType::Char">>
      [] sql_type[1] = "VarChar" -> <<"PgType::Char">>
      [] sql_type[1] = "SmallInt" -> <<"PgType::SmallInt">>
      [] sql_type[1] = "Integer" -> <<"PgType::Integer">>
      [] sql_type[1] = "BigInt" -> <<"PgType::BigInt">>
      [] OTHER -> Unreachable

\* impl Into<PgType> for &SqlType
into_pg_type(sql_type) ==
    CASE sql_type[1] = "Bool" -> <<"PgType::Bool">>
      [] sql_type[1] = "Char" -> <<"PgType::Char">>
      [] sql_type[1] = "VarChar" -> <<"PgType::VarChar">>
      [] sql_type[1] = "SmallInt" -> <<"PgType::SmallInt">>
      [] sql_type[1] = "Integer" -> <<"PgType::Integer">>
      [] sql_type[1] = "BigInt" -> <<"PgType::BigInt">>
      [] OTHER -> Unreachable

\* sqlparser::ast::Statement: the kind of the statement, the table and the
\* columns it names, the number of the placeholders $1.. it holds and the
\* values bound to them
Statement(kind, table_name, columns, placeholders) ==
    [kind |-> kind, table_name |-> table_name, columns |-> columns,
     placeholders |-> placeholders, values |-> <<>>]

\* QueryParser::parse(sql): a text is the statements it is written of, or is
\* not SQL at all
Sql(statements) == <<"sql", statements>>
NotSql(text) == <<"not sql", text>>
parse(sql) == IF sql[1] = "sql" THEN Ok(sql[2]) ELSE Err("syntax error: " \o sql[2])

\* Vec::pop().expect(..) of a vector that is not empty
pop(statements) == statements[Len(statements)]

\* Plan and PlanError
Plan(kind, input) == <<kind, input>>
SelectInput(table_id, selected_columns) ==
    [table_id |-> table_id, selected_columns |-> selected_columns]
PlanError(kind, name) == <<kind, name>>

ColumnNames == [i \in 1..Len(EngineColumns) |-> EngineColumns[i].name]
ColumnOrdinal(name) == CHOOSE i \in 1..Len(EngineColumns) : ColumnNames[i] = name

\* the columns a statement names that the table does not have, in order
RECURSIVE MissingColumns(_, _)
MissingColumns(columns, i) ==
    IF i > Len(columns) THEN <<>>
    ELSE (IF columns[i] \in Range(ColumnNames) THEN <<>>
          ELSE <<PlanError("ColumnDoesNotExist", columns[i])>>)
         \o MissingColumns(columns, i + 1)

\* QueryPlanner::plan(statement)
plan(meta, statement) ==
    CASE statement.kind \in {"SetVariable", "ShowVariable"} ->
            Ok(Plan("NotProcessed", statement))
      [] statement.kind = "CreateTable" ->
            IF meta.exists
            THEN Err(<<PlanError("TableAlreadyExists", JoinDots(statement.table_name))>>)
            ELSE Ok(Plan("CreateTable", statement.table_name))
      [] OTHER ->
            IF ~meta.exists
            THEN Err(<<PlanError("TableDoesNotExist", JoinDots(statement.table_name))>>)
            ELSE CASE statement.kind = "Drop" -> Ok(Plan("DropTables", <<EngineTableId>>))
                   [] statement.kind = "Insert" ->
                        Ok(Plan("Insert", [table_id |-> EngineTableId,
                                           values |-> statement.values]))
                   [] statement.kind = "Update" -> Ok(Plan("Update", EngineTableId))
                   [] statement.kind = "Delete" -> Ok(Plan("Delete", EngineTableId))
                   [] statement.kind = "Query" ->
                        LET errors == MissingColumns(statement.columns, 1)
                        IN IF errors # <<>> THEN Err(errors)
                           ELSE Ok(Plan("Select",
                                    SelectInput(EngineTableId,
                                        [i \in 1..Len(statement.columns) |->
                                            ColumnOrdinal(statement.columns[i]) - 1])))

\* QueryEvent and QueryError
QueryEvent(kind) == <<kind>>
QueryEventOf(kind, value) == <<kind, value>>
QueryComplete == QueryEvent("QueryComplete")
ParseComplete == QueryEvent("ParseComplete")
BindComplete == QueryEvent("BindComplete")
QueryError(kind, message) == <<kind, message>>

\* n times the event
Repeat(x, n) == [i \in 1..n |-> x]

\* DataManager::column_defs(table_id, selected_columns)
column_defs(table_id, selected_columns) ==
    [i \in 1..Len(selected_columns) |-> EngineColumns[selected_columns[i] + 1]]

\* QueryExecutor::execute(plan): the catalog and the storage after it, and
\* the events sent
Executor(meta, sent) == [metadata |-> meta, sent |-> sent]
QueryExecutor_execute(meta, the_plan) ==
    CASE the_plan[1] = "CreateTable" ->
            Executor(Metadata(TRUE, 0), <<Ok(QueryEvent("TableCreated"))>>)
      [] the_plan[1] = "DropTables" ->
            Executor(Metadata(FALSE, 0), <<Ok(QueryEvent("TableDropped"))>>)
      [] the_plan[1] = "Insert" ->
            Executor(Metadata(TRUE, meta.stored + 1),
                     <<Ok(QueryEventOf("RecordsInserted", 1))>>)
      [] the_plan[1] = "Update" ->
            Executor(meta, <<Ok(QueryEventOf("RecordsUpdated", meta.stored))>>)
      [] the_plan[1] = "Delete" ->
            Executor(Metadata(TRUE, 0), <<Ok(QueryEventOf("RecordsDeleted", meta.stored))>>)
      [] the_plan[1] = "Select" ->
            Executor(meta,
                <<Ok(QueryEventOf("RowDescription",
                        column_defs(the_plan[2].table_id, the_plan[2].selected_columns)))>>
                \o Repeat(Ok(QueryEvent("DataRow")), meta.stored)
                \o <<Ok(QueryEventOf("RecordsSelected", meta.stored))>>)
      [] the_plan[1] = "NotProcessed" ->
            Executor(meta, IF the_plan[2].kind = "SetVariable"
                           THEN <<Ok(QueryEvent("VariableSet"))>>
                           ELSE <<Ok(QueryComplete)>>)

\* Session<Statement>
PreparedStatement(stmt, param_types, description) ==
    [stmt |-> stmt, param_types |-> param_types, description |-> description]
Portal(statement_name, stmt, result_formats) ==
    [statement_name |-> statement_name, stmt |-> stmt, result_formats |-> result_formats]
SessionDefault == [prepared_statements |-> EmptyMap, portals |-> EmptyMap]

get_prepared_statement(sess, name) ==
    IF name \in DOMAIN sess.prepared_statements
    THEN Some(sess.prepared_statements[name]) ELSE None

set_prepared_statement(sess, name, statement) ==
    [sess EXCEPT !.prepared_statements = MapInsert(@, name, statement)]

get_portal(sess, name) ==
    IF name \in DOMAIN sess.portals THEN Some(sess.portals[name]) ELSE None

set_portal(sess, portal_name, statement_name, stmt, result_formats) ==
    [sess EXCEPT !.portals =
        MapInsert(@, portal_name, Portal(statement_name, stmt, result_formats))]

\* PostgreSqlFormat
TextFormat == "Text"
BinaryFormat == "Binary"

\* mutant of pad_formats: a single format is kept as it is
pad_formats_keeps_single(formats, param_len) ==
    IF Len(formats) = 0 THEN Ok(Repeat(TextFormat, param_len))
    ELSE IF Len(formats) = 1 THEN Ok(formats)
    ELSE IF Len(formats) = param_len THEN Ok(formats)
    ELSE Err("expected " \o ToString(Len(formats))
                 \o " field format specifiers, but got " \o ToString(param_len))

pad_formats(formats, param_len) ==
    IF Len(formats) = 0 THEN Ok(Repeat(TextFormat, param_len))
    ELSE IF Len(formats) = 1 THEN Ok(Repeat(formats[1], param_len))
    ELSE IF Len(formats) = param_len THEN Ok(formats)
    ELSE Err("expected " \o ToString(Len(formats))
                 \o " field format specifiers, but got " \o ToString(param_len))

\* bytes that are not the encoding of a value of any type
InvalidBytes == "0xFF"

\* PgType::decode(format, bytes): the value that the bytes stand for in the
\* format; the bytes of a number are digits
PostgreSqlValue(value) == <<"PostgreSqlValue", value>>
Null == <<"PostgreSqlValue::Null">>
decode(typ, format, bytes) ==
    IF \/ bytes = InvalidBytes
       \/ /\ typ \in {<<"PgType::SmallInt">>, <<"PgType::Integer">>, <<"PgType::BigInt">>}
          /\ bytes # "1"
    THEN Err("invalid input syntax for type: " \o bytes)
    ELSE Ok(PostgreSqlValue(<<format, bytes>>))

Min(a, b) == IF a < b THEN a ELSE b

\* what a call of the engine leaves: the session, the catalog and storage,
\* the messages sent to the sender in order, those of them the executor
\* sent, and what the call returned
Engine(sess, meta, sent, executed, result) ==
    [session |-> sess, metadata |-> meta, sent |-> sent, executed |-> executed,
     result |-> result]

\* mutant of DecodeParams: a parameter that cannot be decoded is bound as
\* NULL and the loop goes on
RECURSIVE DecodeParams_goes_on(_, _, _, _, _)
DecodeParams_goes_on(raw_params, param_types, param_formats, i, params) ==
    IF i > Min(Len(raw_params), Min(Len(param_types), Len(param_formats)))
    THEN Ok(params)
    ELSE IF raw_params[i] = None
    THEN DecodeParams_goes_on(raw_params, param_types, param_formats, i + 1,
                              Append(params, Null))
    ELSE LET param == decode(param_types[i], param_formats[i], raw_params[i][1])
         IN DecodeParams_goes_on(raw_params, param_types, param_formats, i + 1,
                Append(params, IF param[1] = "Ok" THEN param[2] ELSE Null))

\* the loop of bind_prepared_statement_to_portal over
\* izip!(raw_params, param_types, param_formats): the decoded parameters, or
\* the message of the first parameter that cannot be decoded
RECURSIVE DecodeParams(_, _, _, _, _)
DecodeParams(raw_params, param_types, param_formats, i, params) ==
    IF i > Min(Len(raw_params), Min(Len(param_types), Len(param_formats)))
    THEN Ok(params)
    ELSE IF raw_params[i] = None
    THEN DecodeParams(raw_params, param_types, param_formats, i + 1, Append(params, Null))
    ELSE LET param == decode(param_types[i], param_formats[i], raw_params[i][1])
         IN IF param[1] = "Ok"
            THEN DecodeParams(raw_params, param_types, param_formats, i + 1,
                              Append(params, param[2]))
            ELSE param

\* ParamBinder::bind(stmt, params): the placeholders replaced by the
\* parameters; a placeholder without a parameter is an error
ParamBinder_bind(stmt, params) ==
    IF stmt.placeholders > Len(params)
    THEN Err(<<>>)
    ELSE Ok([stmt EXCEPT !.values = SubSeq(params, 1, stmt.placeholders)])

\* the result of bind_prepared_statement_to_portal and the messages it sent
bind_prepared_statement_to_portal(prepared_statement, param_formats, raw_params, result_formats) ==
    LET padded == pad_formats(param_formats, Len(raw_params))
    IN IF padded[1] = "Err"
       THEN Evaluated(Err(<<>>), <<Err(QueryError("protocol_violation", padded[2]))>>)
       ELSE LET params == DecodeParams(raw_params, prepared_statement.param_types,
                                       padded[2], 1, <<>>)
            IN IF params[1] = "Err"
               THEN Evaluated(Err(<<>>),
                              <<Err(QueryError("invalid_parameter_value", params[2]))>>)
               ELSE LET new_stmt == ParamBinder_bind(prepared_statement.stmt, params[2])
                    IN IF new_stmt[1] = "Err"
                       THEN Evaluated(Err(<<>>), <<>>)
                       ELSE LET formats == pad_formats(result_formats,
                                               Len(prepared_statement.description))
                            IN IF formats[1] = "Err"
                               THEN Evaluated(Err(<<>>),
                                        <<Err(QueryError("protocol_violation", formats[2]))>>)
                               ELSE Evaluated(Ok(<<new_stmt[2], formats[2]>>), <<>>)

\* QueryEngine::describe(select_input)
QueryEngine_describe(select_input) ==
    LET defs == column_defs(select_input.table_id, select_input.selected_columns)
    IN Ok([i \in 1..Len(defs) |-> <<defs[i].name, into_pg_type(defs[i].sql_type)>>])

\* the QueryError sent for a PlanError
query_error(error) ==
    CASE error[1] = "SchemaAlreadyExists" -> QueryError("schema_already_exists", error[2])
      [] error[1] = "SchemaDoesNotExist" -> QueryError("schema_does_not_exist", error[2])
      [] error[1] = "TableAlreadyExists" -> QueryError("table_already_exists", error[2])
      [] error[1] = "TableDoesNotExist" -> QueryError("table_does_not_exist", error[2])
      [] error[1] = "DuplicateColumn" -> QueryError("duplicate_column", error[2])
      [] error[1] = "ColumnDoesNotExist" -> QueryError("column_does_not_exist", error[2])
      [] error[1] = "SyntaxError" -> QueryError("syntax_error", error[2])
      [] error[1] = "FeatureNotSupported" -> QueryError("feature_not_supported", error[2])

\* mutant of SendErrors: the errors are sent last to first
SendErrors_reversed(errors) ==
    [i \in 1..Len(errors) |-> Err(query_error(errors[Len(errors) + 1 - i]))]

\* for error in errors { sender.send(Err(query_error)) }
SendErrors(errors) == [i \in 1..Len(errors) |-> Err(query_error(errors[i]))]

\* Command
CommandBind(portal_name, statement_name, param_formats, raw_params, result_formats) ==
    <<"Bind", [portal_name |-> portal_name, statement_name |-> statement_name,
               param_formats |-> param_formats, raw_params |-> raw_params,
               result_formats |-> result_formats]>>
CommandContinue == <<"Continue">>
CommandDescribeStatement(name) == <<"DescribeStatement", [name |-> name]>>
CommandExecute(portal_name, max_rows) ==
    <<"Execute", [portal_name |-> portal_name, max_rows |-> max_rows]>>
CommandFlush == <<"Flush">>
CommandParse(statement_name, sql, param_types) ==
    <<"Parse", [statement_name |-> statement_name, sql |-> sql,
                param_types |-> param_types]>>
CommandQuery(sql) == <<"Query", [sql |-> sql]>>
CommandTerminate == <<"Terminate">>

\* mutant of execute_bind: BindComplete is sent and no portal is stored
execute_bind_stores_nothing(sess, meta, command) ==
    LET prepared_statement == get_prepared_statement(sess, command.statement_name)
    IN IF prepared_statement = None
       THEN Engine(sess, meta,
                <<Err(QueryError("prepared_statement_does_not_exist",
                                 command.statement_name))>>, <<>>, Ok(<<>>))
       ELSE LET bound == bind_prepared_statement_to_portal(
                             prepared_statement[1], command.param_formats,
                             command.raw_params, command.result_formats)
            IN IF bound.result[1] = "Ok"
               THEN Engine(sess, meta, bound.sent \o <<Ok(BindComplete)>>, <<>>, Ok(<<>>))
               ELSE Engine(sess, meta, bound.sent, <<>>, Ok(<<>>))

\* QueryEngine::execute(Command::Bind {..})
execute_bind(sess, meta, command) ==
    LET prepared_statement == get_prepared_statement(sess, command.statement_name)
    IN IF prepared_statement = None
       THEN Engine(sess, meta,
                <<Err(QueryError("prepared_statement_does_not_exist",
                                 command.statement_name))>>, <<>>, Ok(<<>>))
       ELSE LET violation ==
                    IF Len(prepared_statement[1].param_types) # Len(command.raw_params)
                    THEN <<Err(QueryError("protocol_violation",
                            "Bind message supplies " \o ToString(Len(command.raw_params))
                            \o " parameters, but prepared statement \""
                            \o command.statement_name \o "\" requires "
                            \o ToString(Len(prepared_statement[1].param_types))))>>
                    ELSE <<>>
                bound == bind_prepared_statement_to_portal(
                             prepared_statement[1], command.param_formats,
                             command.raw_params, command.result_formats)
            IN IF bound.result[1] = "Ok"
               THEN Engine(set_portal(sess, command.portal_name, command.statement_name,
                                      bound.result[2][1], bound.result[2][2]),
                           meta, violation \o bound.sent \o <<Ok(BindComplete)>>,
                           <<>>, Ok(<<>>))
               ELSE Engine(sess, meta, violation \o bound.sent, <<>>, Ok(<<>>))

\* QueryEngine::execute(Command::Continue)
execute_continue(sess, meta) == Engine(sess, meta, <<Ok(QueryComplete)>>, <<>>, Ok(<<>>))

\* mutant of execute_describe_statement: the description is sent first
execute_describe_statement_swapped(sess, meta, command) ==
    LET stmt == get_prepared_statement(sess, command.name)
    IN IF stmt = None
       THEN Engine(sess, meta,
                <<Err(QueryError("prepared_statement_does_not_exist", command.name))>>,
                <<>>, Ok(<<>>))
       ELSE Engine(sess, meta,
                <<Ok(QueryEventOf("StatementDescription", stmt[1].description)),
                  Ok(QueryEventOf("StatementParameters", stmt[1].param_types))>>,
                <<>>, Ok(<<>>))

\* QueryEngine::execute(Command::DescribeStatement {name})
execute_describe_statement(sess, meta, command) ==
    LET stmt == get_prepared_statement(sess, command.name)
    IN IF stmt = None
       THEN Engine(sess, meta,
                <<Err(QueryError("prepared_statement_does_not_exist", command.name))>>,
                <<>>, Ok(<<>>))
       ELSE Engine(sess, meta,
                <<Ok(QueryEventOf("StatementParameters", stmt[1].param_types)),
                  Ok(QueryEventOf("StatementDescription", stmt[1].description))>>,
                <<>>, Ok(<<>>))

\* mutant of execute_execute: the errors of planning are sent
execute_execute_reports(sess, meta, command) ==
    LET portal == get_portal(sess, command.portal_name)
    IN IF portal = None
       THEN Engine(sess, meta,
                <<Err(QueryError("portal_does_not_exist", command.portal_name)),
                  Ok(QueryComplete)>>, <<>>, Ok(<<>>))
       ELSE LET planned == plan(meta, portal[1].stmt)
            IN IF planned[1] = "Ok"
               THEN LET out == QueryExecutor_execute(meta, planned[2])
                    IN Engine(sess, out.metadata, out.sent \o <<Ok(QueryComplete)>>,
                              out.sent, Ok(<<>>))
               ELSE Engine(sess, meta, SendErrors(planned[2]) \o <<Ok(QueryComplete)>>,
                           <<>>, Ok(<<>>))

\* QueryEngine::execute(Command::Execute {portal_name, max_rows})
execute_execute(sess, meta, command) ==
    LET portal == get_portal(sess, command.portal_name)
    IN IF portal = None
       THEN Engine(sess, meta,
                <<Err(QueryError("portal_does_not_exist", command.portal_name)),
                  Ok(QueryComplete)>>, <<>>, Ok(<<>>))
       ELSE LET planned == plan(meta, portal[1].stmt)
            IN IF planned[1] = "Ok"
               THEN LET out == QueryExecutor_execute(meta, planned[2])
                    IN Engine(sess, out.metadata, out.sent \o <<Ok(QueryComplete)>>,
                              out.sent, Ok(<<>>))
               ELSE Engine(sess, meta, <<Ok(QueryComplete)>>, <<>>, Ok(<<>>))

\* QueryEngine::execute(Command::Flush)
execute_flush(sess, meta) == Engine(sess, meta, <<>>, <<>>, Ok(<<>>))

\* mutant of parse_complete: the statement is stored and nothing is sent
parse_complete_silent(sess, meta, statement_name, statement) ==
    Engine(set_prepared_statement(sess, statement_name, statement), meta,
           <<>>, <<>>, Ok(<<>>))

\* the end of the arms of Parse that prepare a statement: ParseComplete is
\* sent and the statement is stored under the name
parse_complete(sess, meta, statement_name, statement) ==
    Engine(set_prepared_statement(sess, statement_name, statement), meta,
           <<Ok(ParseComplete)>>, <<>>, Ok(<<>>))

\* what the other sessions of the node do to the catalog while this session
\* handles a Parse: nothing, or one of them drops the schema after the
\* statement was planned and creates it again once it was described
NoOther == "none"
OtherDropsSchema == "drop_schema"
OtherSessions == {NoOther, OtherDropsSchema}

\* the catalog as the analyzer finds it, and as the command leaves it
DescribedView(meta, other) ==
    IF other = OtherDropsSchema
    THEN [schemas |-> EmptyMap, tables |-> EmptyMap, columns |-> EmptyMap]
    ELSE MetadataView(meta)
MetadataAfter(meta, other) ==
    IF other = OtherDropsSchema THEN Metadata(FALSE, 0) ELSE meta

\* the arm of Parse for Plan::Insert
parse_insert(sess, meta, command, statement, other) ==
    LET description == describe(DescribedView(meta, other), statement)
        after == MetadataAfter(meta, other)
    IN CASE description[1] = "Ok" ->
               parse_complete(sess, after, command.statement_name,
                   PreparedStatement(statement,
                       [i \in 1..Len(description[2][2].sql_types) |->
                           into_pg_type(description[2][2].sql_types[i])],
                       <<>>))
         [] description[1] = "Err" /\ description[2][1] = "TableDoesNotExist" ->
               Engine(sess, after,
                      <<Err(QueryError("table_does_not_exist", description[2][2]))>>,
                      <<>>, Ok(<<>>))
         [] description[1] = "Err" /\ description[2][1] = "SchemaDoesNotExist" ->
               Engine(sess, after,
                      <<Err(QueryError("table_does_not_exist", description[2][2]))>>,
                      <<>>, Ok(<<>>))
         [] OTHER -> Engine(sess, after, <<>>, <<>>, description)

\* QueryEngine::execute(Command::Parse {statement_name, sql, param_types})
execute_parse(sess, meta, command, other) ==
    LET statements == parse(command.sql)
    IN IF statements[1] = "Err"
       THEN Engine(sess, meta, <<Err(QueryError("syntax_error", statements[2]))>>,
                   <<>>, Ok(<<>>))
       ELSE LET statement == pop(statements[2])
                planned == plan(meta, statement)
            IN IF planned[1] = "Err"
               THEN Engine(sess, meta, SendErrors(planned[2]), <<>>, Ok(<<>>))
               ELSE CASE planned[2][1] = "Select" ->
                            LET description == QueryEngine_describe(planned[2][2])
                            IN IF description[1] = "Ok"
                               THEN parse_complete(sess, meta, command.statement_name,
                                        PreparedStatement(statement, command.param_types,
                                                          description[2]))
                               ELSE Engine(sess, meta, <<>>, <<>>, Ok(<<>>))
                      [] planned[2][1] = "Insert" ->
                            parse_insert(sess, meta, command, statement, other)
                      [] planned[2][1] = "Update" ->
                            parse_complete(sess, meta, command.statement_name,
                                PreparedStatement(statement, command.param_types, <<>>))
                      [] planned[2][1] = "NotProcessed" ->
                            IF planned[2][2].kind = "SetVariable"
                            THEN parse_complete(sess, meta, command.statement_name,
                                     PreparedStatement(planned[2][2], command.param_types,
                                                       <<>>))
                            ELSE Engine(sess, meta, <<>>, <<>>, Ok(<<>>))
                      [] OTHER -> Engine(sess, meta, <<>>, <<>>, Ok(<<>>))

\* QueryEngine::execute(Command::Query {sql})
execute_query(sess, meta, command) ==
    LET statements == parse(command.sql)
    IN IF statements[1] = "Err"
       THEN Engine(sess, meta,
                   <<Err(QueryError("syntax_error", statements[2])), Ok(QueryComplete)>>,
                   <<>>, Ok(<<>>))
       ELSE LET planned == plan(meta, pop(statements[2]))
            IN IF planned[1] = "Err"
               THEN Engine(sess, meta, SendErrors(planned[2]) \o <<Ok(QueryComplete)>>,
                           <<>>, Ok(<<>>))
               ELSE LET out == QueryExecutor_execute(meta, planned[2])
                    IN Engine(sess, out.metadata, out.sent \o <<Ok(QueryComplete)>>,
                              out.sent, Ok(<<>>))

\* mutant of execute_terminate: the session goes on
execute_terminate_goes_on(sess, meta) == Engine(sess, meta, <<>>, <<>>, Ok(<<>>))

\* QueryEngine::execute(Command::Terminate)
execute_terminate(sess, meta) == Engine(sess, meta, <<>>, <<>>, Err(<<>>))

\* QueryEngine::execute(command)
execute(sess, meta, command, other) ==
    CASE command[1] = "Bind" -> execute_bind(sess, meta, command[2])
      [] command[1] = "Continue" -> execute_continue(sess, meta)
      [] command[1] = "DescribeStatement" ->
            execute_describe_statement(sess, meta, command[2])
      [] command[1] = "Execute" -> execute_execute(sess, meta, command[2])
      [] command[1] = "Flush" -> execute_flush(sess, meta)
      [] command[1] = "Parse" -> execute_parse(sess, meta, command[2], other)
      [] command[1] = "Query" -> execute_query(sess, meta, command[2])
      [] command[1] = "Terminate" -> execute_terminate(sess, meta)

(***************************************************************************)
(* SpecEngine: the commands of one session, one after the other.           *)
(***************************************************************************)
MaxStored == 1

StatementNames == {"", "s1"}
PortalNames == {""}

Statements ==
    {Statement("Query", EngineTable, <<"b", "a">>, 0),
     Statement("Query", EngineTable, <<"d", "c">>, 0),
     Statement("Insert", EngineTable, <<>>, 1),
     Statement("Update", EngineTable, <<>>, 0),
     Statement("Delete", EngineTable, <<>>, 0),
     Statement("SetVariable", <<>>, <<>>, 0),
     Statement("ShowVariable", <<>>, <<>>, 0),
     Statement("CreateTable", EngineTable, <<>>, 0),
     Statement("Drop", EngineTable, <<>>, 0)}

\* the texts a client sends: one statement each, two statements, and a text
\* that is not SQL
Sqls ==
    {Sql(<<s>>) : s \in Statements}
    \cup {Sql(<<Statement("Drop", EngineTable, <<>>, 0),
                Statement("SetVariable", <<>>, <<>>, 0)>>),
          NotSql("selec")}

ClientParamTypes == {<<>>, <<<<"PgType::SmallInt">>>>}

\* <<param_formats, raw_params, result_formats>> of the Bind commands
BindArguments ==
    {<<<<>>, <<>>, <<>>>>,
     <<<<>>, <<>>, <<BinaryFormat>>>>,
     <<<<>>, <<>>, <<TextFormat, BinaryFormat>>>>,
     <<<<>>, <<Some("abc")>>, <<>>>>,
     <<<<>>, <<None, Some("1")>>, <<>>>>,
     <<<<>>, <<Some("abc"), Some(InvalidBytes)>>, <<>>>>,
     <<<<BinaryFormat, TextFormat>>, <<Some("1"), None>>, <<>>>>,
     <<<<BinaryFormat>>, <<Some("1")>>, <<BinaryFormat>>>>,
     <<<<TextFormat, BinaryFormat>>, <<Some("1")>>, <<>>>>,
     <<<<TextFormat, BinaryFormat>>, <<None, Some("1")>>, <<TextFormat, BinaryFormat>>>>}

\* the statements a client prepares under the name "s1"
NamedStatements == {Statement("Insert", EngineTable, <<>>, 1)}

Commands ==
    {CommandBind(p, s, a[1], a[2], a[3]) : p \in PortalNames, s \in StatementNames,
                                          a \in BindArguments}
    \cup {CommandContinue, CommandFlush, CommandTerminate}
    \cup {CommandDescribeStatement(s) : s \in StatementNames}
    \cup {CommandExecute(p, 0) : p \in PortalNames}
    \cup {CommandParse("", sql, t) : sql \in Sqls, t \in ClientParamTypes}
    \cup {CommandParse("s1", Sql(<<s>>), <<>>) : s \in NamedStatements}
    \cup {CommandQuery(sql) : sql \in Sqls}

InitEngine ==
    /\ StorageIdle
    /\ TypesIdle /\ PersistentIdle /\ AnalyzerIdle /\ EvalIdle
    /\ session = SessionDefault
    /\ metadata \in {Metadata(FALSE, 0), Metadata(TRUE, 0)}
    /\ handled = NoCommand

\* the session task hands the next command to QueryEngine::execute, until
\* execute returns Err(())
Handle(command, other) ==
    /\ handled.result # Err(<<>>)
    /\ \E out \in {execute(session, metadata, command, other)} :
          /\ out.metadata.stored <= MaxStored
          /\ session' = out.session
          /\ metadata' = out.metadata
          /\ handled' = [command |-> command, other |-> other, sent |-> out.sent,
                         executed |-> out.executed, result |-> out.result]
    /\ UNCHANGED <<storageVars, typesVars, persistentVars, analyzerVars, evalVars>>

Bind == \E c \in Commands : c[1] = "Bind" /\ Handle(c, NoOther)
Continue == Handle(CommandContinue, NoOther)
DescribeStatement == \E c \in Commands : c[1] = "DescribeStatement" /\ Handle(c, NoOther)
Execute == \E c \in Commands : c[1] = "Execute" /\ Handle(c, NoOther)
Flush == Handle(CommandFlush, NoOther)
\* the text of the command is an INSERT that can be planned
PlannedInsert(meta, command) ==
    /\ parse(command.sql)[1] = "Ok"
    /\ pop(parse(command.sql)[2]).kind = "Insert"
    /\ plan(meta, pop(parse(command.sql)[2]))[1] = "Ok"

\* the other sessions are modelled where they decide what a Parse does:
\* between the planning and the describing of an INSERT
Parse ==
    \E c \in Commands, other \in OtherSessions :
        /\ c[1] = "Parse"
        /\ other = OtherDropsSchema => PlannedInsert(metadata, c[2])
        /\ Handle(c, other)
Query == \E c \in Commands : c[1] = "Query" /\ Handle(c, NoOther)
Terminate == Handle(CommandTerminate, NoOther)

NextEngine ==
    \/ Bind
    \/ Continue
    \/ DescribeStatement
    \/ Execute
    \/ Flush
    \/ Parse
    \/ Query
    \/ Terminate

SpecEngine == InitEngine /\ [][NextEngine]_vars

(***************************************************************************)
(* Claims about the query engine.                                          *)
(***************************************************************************)
\* the name of the QueryError a PlanError is reported as
QueryErrorKind ==
    [k \in {"SchemaAlreadyExists", "SchemaDoesNotExist", "TableAlreadyExists",
            "TableDoesNotExist", "DuplicateColumn", "ColumnDoesNotExist"} |->
        CASE k = "SchemaAlreadyExists" -> "schema_already_exists"
          [] k = "SchemaDoesNotExist" -> "schema_does_not_exist"
          [] k = "TableAlreadyExists" -> "table_already_exists"
          [] k = "TableDoesNotExist" -> "table_does_not_exist"
          [] k = "DuplicateColumn" -> "duplicate_column"
          [] k = "ColumnDoesNotExist" -> "column_does_not_exist"]

\* the messages of the command that the engine itself sent: those after the
\* messages of the executor
OwnMessages(h) == SubSeq(h.sent, Len(h.executed) + 1, Len(h.sent))

C22_OnlyTerminateEndsTheSession ==
    handled # NoCommand =>
        IF handled.command = CommandTerminate
        THEN handled.result = Err(<<>>) /\ handled.sent = <<>>
        ELSE handled.result = Ok(<<>>)

\* Terminate was handled: execute returned Err(()) and nothing was sent
C22_Witness == handled.command = CommandTerminate /\ handled.result = Err(<<>>)

\* the command of the step is a Bind of a prepared statement that exists
\* with another number of raw parameters than the statement has parameter
\* types
BindCountMismatch ==
    /\ handled'.command[1] = "Bind"
    /\ LET prepared_statement ==
               get_prepared_statement(session, handled'.command[2].statement_name)
       IN /\ prepared_statement # None
          /\ Len(prepared_statement[1].param_types) # Len(handled'.command[2].raw_params)

\* C23: a Bind whose number of raw parameters differs from the number of
\* parameter types of the prepared statement sends a protocol_violation and
\* stops: it sends no BindComplete and leaves the portals as they were.
C23_BindCountMismatchAborts ==
    [][BindCountMismatch =>
        /\ \E i \in 1..Len(handled'.sent) :
               /\ handled'.sent[i][1] = "Err"
               /\ handled'.sent[i][2][1] = "protocol_violation"
        /\ Ok(BindComplete) \notin Range(handled'.sent)
        /\ session'.portals = session.portals
    ]_vars

\* out is what the padding of formats to n elements is specified to be
PaddedAsSpecified(formats, n, out) ==
    /\ Len(formats) = 0 => out = Ok([i \in 1..n |-> TextFormat])
    /\ Len(formats) = 1 => out = Ok([i \in 1..n |-> formats[1]])
    /\ Len(formats) = n => out = Ok(formats)
    /\ Len(formats) \notin {0, 1, n} => out[1] = "Err"
    /\ out[1] = "Ok" => Len(out[2]) = n

ProtocolViolation(message) == Err(QueryError("protocol_violation", message))

\* C24: pad_formats(formats, n) is n times Text for no format, n times the
\* format for one format, the formats themselves for n formats and an error
\* otherwise, and a result that is Ok has n elements.  A Bind of a prepared
\* statement pads the parameter formats to the number of raw parameters and,
\* once the parameters are decoded and bound, the result formats to the
\* length of the description of the statement; when a padding fails it
\* sends protocol_violation with the message of the padding and no
\* BindComplete, and a portal it stores holds the padded result formats.
C24_PadFormats ==
    (handled.command[1] = "Bind"
     /\ get_prepared_statement(session, handled.command[2].statement_name) # None) =>
        LET command == handled.command[2]
            prepared_statement == session.prepared_statements[command.statement_name]
            param_formats == pad_formats(command.param_formats, Len(command.raw_params))
            result_formats == pad_formats(command.result_formats,
                                          Len(prepared_statement.description))
            params == DecodeParams(command.raw_params, prepared_statement.param_types,
                                   param_formats[2], 1, <<>>)
        IN /\ PaddedAsSpecified(command.param_formats, Len(command.raw_params),
                                param_formats)
           /\ PaddedAsSpecified(command.result_formats,
                                Len(prepared_statement.description), result_formats)
           /\ param_formats[1] = "Err" =>
                 /\ ProtocolViolation(param_formats[2]) \in Range(handled.sent)
                 /\ Ok(BindComplete) \notin Range(handled.sent)
           /\ result_formats[1] = "Err" =>
                 /\ Ok(BindComplete) \notin Range(handled.sent)
                 /\ (/\ param_formats[1] = "Ok"
                     /\ params[1] = "Ok"
                     /\ ParamBinder_bind(prepared_statement.stmt, params[2])[1] = "Ok")
                    => ProtocolViolation(result_formats[2]) \in Range(handled.sent)
           /\ Ok(BindComplete) \in Range(handled.sent) =>
                 /\ param_formats[1] = "Ok" /\ result_formats[1] = "Ok"
                 /\ session.portals[command.portal_name].result_formats
                        = result_formats[2]

\* a Bind with one result format of a statement that describes two columns
\* stored a portal with the format twice
C24_Witness ==
    /\ handled.command[1] = "Bind"
    /\ handled.command[2].result_formats = <<BinaryFormat>>
    /\ Ok(BindComplete) \in Range(handled.sent)
    /\ session.portals[handled.command[2].portal_name].result_formats
           = <<BinaryFormat, BinaryFormat>>

\* a Bind with two parameter formats and one raw parameter was refused
C24_WitnessRefused ==
    /\ handled.command[1] = "Bind"
    /\ Len(handled.command[2].param_formats) = 2
    /\ Len(handled.command[2].raw_params) = 1
    /\ ProtocolViolation("expected 2 field format specifiers, but got 1")
           \in Range(handled.sent)

\* C25: DescribeStatement(name) of a prepared statement that exists sends
\* StatementParameters(its parameter types) and then
\* StatementDescription(its description) and nothing else; of a name that
\* does not exist it sends the error prepared_statement_does_not_exist(name)
\* and nothing else; the prepared statements and the portals stay as they
\* were.
C25_DescribeStatement ==
    [][handled'.command[1] = "DescribeStatement" =>
        LET name == handled'.command[2].name
        IN /\ name \in DOMAIN session.prepared_statements =>
                 handled'.sent =
                    <<Ok(<<"StatementParameters",
                           session.prepared_statements[name].param_types>>),
                      Ok(<<"StatementDescription",
                           session.prepared_statements[name].description>>)>>
           /\ name \notin DOMAIN session.prepared_statements =>
                 handled'.sent =
                    <<Err(QueryError("prepared_statement_does_not_exist", name))>>
           /\ session' = session
    ]_vars

\* a statement with a parameter type and a description of two columns was
\* described
C25_Witness ==
    /\ handled.command[1] = "DescribeStatement"
    /\ Len(handled.sent) = 2
    /\ handled.sent[1] = Ok(<<"StatementParameters", <<<<"PgType::SmallInt">>>>>>)
    /\ handled.sent[2][2][1] = "StatementDescription"
    /\ Len(handled.sent[2][2][2]) = 2

\* C26: a Parse either stores the prepared statement and sends
\* ParseComplete, or sends at least one QueryError; it never ends with
\* nothing sent.
C26_ParseAlwaysAnswers ==
    handled.command[1] = "Parse" =>
        \/ /\ Ok(ParseComplete) \in Range(handled.sent)
           /\ handled.command[2].statement_name \in DOMAIN session.prepared_statements
        \/ \E i \in 1..Len(handled.sent) : handled.sent[i][1] = "Err"

\* a Parse of a CREATE TABLE, of a DROP TABLE or of a DELETE ended with
\* nothing sent and nothing stored
C26_SilentParse ==
    /\ handled.command[1] = "Parse"
    /\ pop(parse(handled.command[2].sql)[2]).kind \in {"CreateTable", "Drop", "Delete"}
    /\ handled.sent = <<>>

\* C29: a step that changes the prepared statements is a Parse that sent
\* ParseComplete, and it changes the statement of its name only; a Parse
\* that did not send ParseComplete leaves the prepared statements and the
\* portals as they were.
C29_OnlyParseCompleteStores ==
    [][/\ session'.prepared_statements # session.prepared_statements =>
            /\ handled'.command[1] = "Parse"
            /\ Ok(ParseComplete) \in Range(handled'.sent)
            /\ \A name \in DOMAIN session.prepared_statements
                          \cup DOMAIN session'.prepared_statements :
                  name # handled'.command[2].statement_name =>
                     /\ name \in DOMAIN session.prepared_statements
                     /\ name \in DOMAIN session'.prepared_statements
                     /\ session'.prepared_statements[name]
                            = session.prepared_statements[name]
       /\ (handled'.command[1] = "Parse"
           /\ Ok(ParseComplete) \notin Range(handled'.sent)) => session' = session
    ]_vars

\* a Parse under "s1" stored a second prepared statement
C29_Witness ==
    /\ handled.command[1] = "Parse"
    /\ handled.command[2].statement_name = "s1"
    /\ Ok(ParseComplete) \in Range(handled.sent)
    /\ DOMAIN session.prepared_statements = {"", "s1"}

\* the wire type of each column of the table
WireTypes == ("a" :> <<"PgType::SmallInt">>) @@ ("b" :> <<"PgType::VarChar">>)

\* C30: the statement a Parse stores holds the statement parsed and, for an
\* INSERT, the wire types of the columns of the table in column order and
\* an empty description, whatever parameter types the client sent; for a
\* SELECT the parameter types of the client and the name and wire type of
\* each selected column in the order selected; for an UPDATE or a SET the
\* parameter types of the client and an empty description.
C30_PreparedStatementShape ==
    (handled.command[1] = "Parse" /\ Ok(ParseComplete) \in Range(handled.sent)) =>
        LET command == handled.command[2]
            statement == pop(parse(command.sql)[2])
            stored == session.prepared_statements[command.statement_name]
        IN /\ stored.stmt = statement
           /\ statement.kind \in {"Insert", "Query", "Update", "SetVariable"}
           /\ statement.kind = "Insert" =>
                 /\ stored.param_types = <<WireTypes["a"], WireTypes["b"]>>
                 /\ stored.description = <<>>
           /\ statement.kind = "Query" =>
                 /\ stored.param_types = command.param_types
                 /\ stored.description =
                        [i \in 1..Len(statement.columns) |->
                            <<statement.columns[i], WireTypes[statement.columns[i]]>>]
           /\ statement.kind \in {"Update", "SetVariable"} =>
                 /\ stored.param_types = command.param_types
                 /\ stored.description = <<>>

\* an INSERT was parsed with one parameter type of the client and stored
\* with the two types of the columns
C30_Witness ==
    /\ handled.command[1] = "Parse"
    /\ Ok(ParseComplete) \in Range(handled.sent)
    /\ pop(parse(handled.command[2].sql)[2]).kind = "Insert"
    /\ Len(handled.command[2].param_types) = 1
    /\ Len(session.prepared_statements[handled.command[2].statement_name].param_types) = 2

\* a SELECT of b, a was parsed and stored with the description of b and a
C30_WitnessSelect ==
    /\ handled.command[1] = "Parse"
    /\ Ok(ParseComplete) \in Range(handled.sent)
    /\ session.prepared_statements[handled.command[2].statement_name].description
           = <<<<"b", <<"PgType::VarChar">>>>, <<"a", <<"PgType::SmallInt">>>>>>

(***************************************************************************)
(* The commands of the executor: DeleteCommand                             *)
(* (query_executor/src/dml/delete.rs) and DropTableCommand                 *)
(* (query_executor/src/ddl/drop_table.rs).  The data manager they call is  *)
(* another crate: it is the persistent handle above, with delete_from and  *)
(* drop_table modelled by what the specification says of them.             *)
(***************************************************************************)
\* data_manager.delete_from(table_id, keys): the rows under the keys are
\* removed and counted; a table that does not exist is Err(())
delete_from(handle, dsk, full_table_id, keys) ==
    IF ~IsTable(handle, full_table_id)
    THEN Executed(handle, dsk, Err(<<>>))
    ELSE LET family == dsk.families[full_table_id[2]]
             found == Range(keys) \cap DOMAIN family
         IN Executed(handle,
                     [dsk EXCEPT !.families[full_table_id[2]] =
                         [k \in DOMAIN family \ found |-> family[k]]],
                     Ok(Cardinality(found)))

\* data_manager.drop_table(table_id): the table, its columns and its rows
\* are removed; a table that does not exist is Err(())
DataManager_drop_table(handle, dsk, full_table_id) ==
    IF ~IsTable(handle, full_table_id)
    THEN Executed(handle, dsk, Err(<<>>))
    ELSE LET id == full_table_id[2]
         IN Executed([handle EXCEPT
                         !.tables = MapRemove(@, dsk.tables[id]),
                         !.columns = MapRemove(@, id)],
                     [dsk EXCEPT
                         !.tables = MapRemove(@, id),
                         !.columns = [c \in {c \in DOMAIN @ : @[c][1] # id} |-> @[c]],
                         !.families = MapRemove(@, id)],
                     Ok(<<>>))

\* what the execution of a command leaves: the handle, the store, the
\* messages sent to the sender and what the last call of the data manager
\* answered
Commanded(out, sent) ==
    [handle |-> out.handle, disk |-> out.disk, sent |-> sent, result |-> out.result]

\* the calls of the data manager an I/O error of the storage can fail
Faults == {"none", "full_scan", "delete_from"}

\* mutant of DeleteCommand_execute: the key of the first scanned row is not
\* passed to delete_from
DeleteCommand_execute_keeps_first(handle, dsk, table_id, fault) ==
    LET reads == IF fault = "full_scan" THEN Err(<<>>)
                 ELSE full_scan(handle, dsk, table_id)
    IN IF reads[1] = "Err"
       THEN Commanded(Executed(handle, dsk, Err(<<>>)), <<>>)
       ELSE LET scanned == [i \in 1..Len(reads[2]) |-> reads[2][i][1]]
                keys == IF scanned = <<>> THEN <<>> ELSE Tail(scanned)
                size == IF fault = "delete_from" THEN Executed(handle, dsk, Err(<<>>))
                        ELSE delete_from(handle, dsk, table_id, keys)
            IN IF size.result[1] = "Err"
               THEN Commanded(size, <<>>)
               ELSE Commanded(size, <<Ok(QueryEventOf("RecordsDeleted", size.result[2]))>>)

\* DeleteCommand::execute, the storage failing the call named by fault
DeleteCommand_execute(handle, dsk, table_id, fault) ==
    LET reads == IF fault = "full_scan" THEN Err(<<>>)
                 ELSE full_scan(handle, dsk, table_id)
    IN IF reads[1] = "Err"
       THEN Commanded(Executed(handle, dsk, Err(<<>>)), <<>>)
       ELSE LET keys == [i \in 1..Len(reads[2]) |-> reads[2][i][1]]
                size == IF fault = "delete_from" THEN Executed(handle, dsk, Err(<<>>))
                        ELSE delete_from(handle, dsk, table_id, keys)
            IN IF size.result[1] = "Err"
               THEN Commanded(size, <<>>)
               ELSE Commanded(size, <<Ok(QueryEventOf("RecordsDeleted", size.result[2]))>>)

\* DropTableCommand::execute
DropTableCommand_execute(handle, dsk, table_id) ==
    Commanded(DataManager_drop_table(handle, dsk, table_id),
              <<Ok(QueryEvent("TableDropped"))>>)

(***************************************************************************)
(* SpecCommands: a caller creates schemas and tables and writes rows, and  *)
(* the executor runs DeleteCommand and DropTableCommand on table ids that  *)
(* were planned before; the table of an id may be gone since.              *)
(***************************************************************************)
\* the command has run: the store after it and what was sent
CommandStep(command, out) ==
    /\ data_manager' = Some(out.handle)
    /\ disk' = out.disk
    /\ handled' = [command |-> command, other |-> NoOther, sent |-> out.sent,
                   executed |-> out.sent,
                   result |-> out.result]
    /\ restart' = NoRestart
    /\ UNCHANGED <<session, metadata>>
    /\ UNCHANGED <<storageVars, typesVars, analyzerVars, evalVars>>

DeleteCommandExecute(table_id, fault) ==
    /\ data_manager # None
    /\ CommandStep(<<"DeleteCommand", [table_id |-> table_id, fault |-> fault]>>,
                   DeleteCommand_execute(data_manager[1], disk, table_id, fault))

DropTableCommandExecute(table_id) ==
    /\ data_manager # None
    /\ CommandStep(<<"DropTableCommand", [table_id |-> table_id]>>,
                   DropTableCommand_execute(data_manager[1], disk, table_id))

\* the schema and the columns of the tables the caller creates
CommandSchema == "schema_name_1"
CommandColumns == <<ColumnDefinition("col_test", <<"SmallInt">>)>>

NextCommands ==
    \/ ExecuteCreateSchema(CommandSchema)
    \/ \E t \in TableNames : ExecuteCreateTable(CommandSchema, t, CommandColumns)
    \/ \E id \in FullTableIds(disk), rows \in PersistentRows : WriteInto(id, rows)
    \/ \E id \in FullTableIds(disk), fault \in Faults : DeleteCommandExecute(id, fault)
    \/ \E id \in FullTableIds(disk) : DropTableCommandExecute(id)

SpecCommands == InitPersistent /\ [][NextCommands]_vars

\* C27: an execution of DeleteCommand sends exactly one message:
\* RecordsDeleted(n) when the scan and the delete succeeded, and an error
\* when the data manager failed one of them.
C27_DeleteSendsOneEvent ==
    handled.command[1] = "DeleteCommand" =>
        /\ Len(handled.sent) = 1
        /\ IF handled.result[1] = "Ok"
           THEN handled.sent[1] = Ok(QueryEventOf("RecordsDeleted", handled.result[2]))
           ELSE handled.sent[1][1] = "Err"

\* a DeleteCommand on a table with two rows deleted them and sent
\* RecordsDeleted(2)
C27_DeletedRows ==
    /\ handled.command[1] = "DeleteCommand"
    /\ handled.sent = <<Ok(QueryEventOf("RecordsDeleted", 2))>>

\* a DeleteCommand whose table was there ended without a message because the
\* storage failed the delete
C27_SilentDelete ==
    /\ handled.command[1] = "DeleteCommand"
    /\ handled.command[2].fault = "delete_from"
    /\ IsTable(data_manager[1], handled.command[2].table_id)
    /\ handled.sent = <<>>

\* C28: an execution of DropTableCommand sends exactly one message, which is
\* TableDropped when data_manager.drop_table succeeded and an error when it
\* failed.
C28_TableDroppedOnlyOnSuccess ==
    handled.command[1] = "DropTableCommand" =>
        /\ Len(handled.sent) = 1
        /\ IF handled.result[1] = "Ok"
           THEN handled.sent[1] = Ok(QueryEvent("TableDropped"))
           ELSE handled.sent[1][1] = "Err"

\* a DropTableCommand dropped a table that had rows
C28_DroppedTable ==
    /\ handled.command[1] = "DropTableCommand"
    /\ handled.result = Ok(<<>>)
    /\ handled.sent = <<Ok(QueryEvent("TableDropped"))>>

(***************************************************************************)
(* Claims about Bind and Execute of the extended query protocol, checked   *)
(* under SpecEngine                                                        *)
(***************************************************************************)
\* the parameter of position i as a Bind is to bind it: NULL for an absent
\* raw parameter, else the bytes decoded with the type and the padded format
\* of the position
BoundParam(command, prepared_statement, padded, i) ==
    IF command.raw_params[i] = None THEN Ok(Null)
    ELSE decode(prepared_statement.param_types[i], padded[i], command.raw_params[i][1])

\* the positions of the messages of a kind of QueryError in sent
ErrorsOfKind(sent, kind) ==
    {i \in 1..Len(sent) : sent[i][1] = "Err" /\ sent[i][2][1] = kind}

\* the command of the step is a Bind of a prepared statement that exists
\* whose parameter formats can be padded
BindDecodes ==
    /\ handled'.command[1] = "Bind"
    /\ get_prepared_statement(session, handled'.command[2].statement_name) # None
    /\ pad_formats(handled'.command[2].param_formats,
                   Len(handled'.command[2].raw_params))[1] = "Ok"

\* C31: during Bind an absent raw parameter is bound as NULL and a present
\* one is decoded with the parameter type of the statement and the padded
\* format at the same position; at the first parameter that cannot be
\* decoded invalid_parameter_value is sent with the message of that
\* parameter and the Bind stops: no second such error, no BindComplete, the
\* portals as they were.
C31_BindDecodesParameters ==
    [][BindDecodes =>
        LET command == handled'.command[2]
            prepared_statement == session.prepared_statements[command.statement_name]
            padded == pad_formats(command.param_formats, Len(command.raw_params))[2]
            n == Min(Len(command.raw_params), Len(prepared_statement.param_types))
            failed == {i \in 1..n :
                          BoundParam(command, prepared_statement, padded, i)[1] = "Err"}
            errors == ErrorsOfKind(handled'.sent, "invalid_parameter_value")
        IN IF failed # {}
           THEN LET first == CHOOSE i \in failed : \A j \in failed : i <= j
                IN /\ Cardinality(errors) = 1
                   /\ \A e \in errors :
                         handled'.sent[e] =
                             Err(QueryError("invalid_parameter_value",
                                     BoundParam(command, prepared_statement,
                                                padded, first)[2]))
                   /\ Ok(BindComplete) \notin Range(handled'.sent)
                   /\ session'.portals = session.portals
           ELSE /\ errors = {}
                /\ Ok(BindComplete) \in Range(handled'.sent) =>
                      LET values == session'.portals[command.portal_name].stmt.values
                      IN \A j \in 1..Len(values) :
                            values[j] = BoundParam(command, prepared_statement,
                                                   padded, j)[2]
    ]_vars

\* a Bind whose two raw parameters both cannot be decoded sent
\* invalid_parameter_value for the first one only
C31_Witness ==
    /\ handled.command[1] = "Bind"
    /\ handled.command[2].raw_params = <<Some("abc"), Some(InvalidBytes)>>
    /\ handled.sent = <<Err(QueryError("invalid_parameter_value",
                                       "invalid input syntax for type: abc"))>>

\* a Bind with the formats Binary and Text stored a portal whose first
\* parameter was decoded as Binary
C31_WitnessDecoded ==
    /\ handled.command[1] = "Bind"
    /\ handled.command[2].param_formats = <<BinaryFormat, TextFormat>>
    /\ Ok(BindComplete) \in Range(handled.sent)
    /\ session.portals[handled.command[2].portal_name].stmt.values
           = <<PostgreSqlValue(<<BinaryFormat, "1">>)>>

\* a Bind stored a portal whose first parameter is NULL
C31_WitnessNull ==
    /\ handled.command[1] = "Bind"
    /\ handled.command[2].raw_params = <<None, Some("1")>>
    /\ Ok(BindComplete) \in Range(handled.sent)
    /\ session.portals[handled.command[2].portal_name].stmt.values = <<Null>>

\* C33: an Execute ends with QueryComplete and sends no other one: for a
\* portal that does not exist the one message before it is
\* portal_does_not_exist with the name of the portal and the executor does
\* not run; for a portal that exists the statement of the portal is planned
\* against the catalog of that moment and, when planning succeeds, the
\* messages of the executor come before QueryComplete, and when it fails
\* QueryComplete is the only message; the portals stay as they were.
C33_ExecuteEndsWithQueryComplete ==
    [][handled'.command[1] = "Execute" =>
        LET sent == handled'.sent
            before == SubSeq(sent, 1, Len(sent) - 1)
            portal == get_portal(session, handled'.command[2].portal_name)
        IN /\ sent # <<>>
           /\ sent[Len(sent)] = Ok(QueryComplete)
           /\ Ok(QueryComplete) \notin Range(before)
           /\ session'.portals = session.portals
           /\ portal = None =>
                 /\ before = <<Err(QueryError("portal_does_not_exist",
                                              handled'.command[2].portal_name))>>
                 /\ handled'.executed = <<>>
                 /\ metadata' = metadata
           /\ portal # None =>
                 IF plan(metadata, portal[1].stmt)[1] = "Ok"
                 THEN before = handled'.executed /\ handled'.executed # <<>>
                 ELSE before = <<>> /\ handled'.executed = <<>> /\ metadata' = metadata
    ]_vars

\* an Execute of a portal whose table had been dropped after the Bind sent
\* QueryComplete and nothing else
C33_Witness ==
    /\ handled.command[1] = "Execute"
    /\ get_portal(session, handled.command[2].portal_name) # None
    /\ session.portals[handled.command[2].portal_name].stmt.kind = "Insert"
    /\ ~metadata.exists
    /\ handled.sent = <<Ok(QueryComplete)>>

\* an Execute of a portal of an INSERT sent RecordsInserted and QueryComplete
C33_WitnessExecuted ==
    /\ handled.command[1] = "Execute"
    /\ handled.sent = <<Ok(QueryEventOf("RecordsInserted", 1)), Ok(QueryComplete)>>

\* an Execute of a portal that does not exist
C33_WitnessNoPortal ==
    /\ handled.command[1] = "Execute"
    /\ handled.sent = <<Err(QueryError("portal_does_not_exist", "")), Ok(QueryComplete)>>

\* whether a Bind of a prepared statement gets through the padding of the
\* parameter formats, the decoding of the parameters, the substitution of
\* the placeholders and the padding of the result formats
BindGetsThrough(command, prepared_statement) ==
    LET padded == pad_formats(command.param_formats, Len(command.raw_params))
        n == Min(Len(command.raw_params), Len(prepared_statement.param_types))
    IN /\ padded[1] = "Ok"
       /\ \A i \in 1..n :
             BoundParam(command, prepared_statement, padded[2], i)[1] = "Ok"
       /\ prepared_statement.stmt.placeholders <= n
       /\ pad_formats(command.result_formats,
                      Len(prepared_statement.description))[1] = "Ok"

\* C35: the portals of the session change only in a Bind that sends
\* BindComplete, and a Bind that sends BindComplete leaves the portal of
\* its name bound to its statement; a Bind of a prepared statement that does
\* not exist sends prepared_statement_does_not_exist and nothing else, and a
\* Bind that fails in padding, decoding or substitution sends no
\* BindComplete and leaves the portals as they were.
C35_PortalsOnlyByBindComplete ==
    [][/\ session'.portals # session.portals =>
             /\ handled'.command[1] = "Bind"
             /\ Ok(BindComplete) \in Range(handled'.sent)
       /\ handled'.command[1] = "Bind" =>
             LET command == handled'.command[2]
                 prepared_statement == get_prepared_statement(session,
                                                              command.statement_name)
             IN IF prepared_statement = None
                THEN /\ handled'.sent =
                            <<Err(QueryError("prepared_statement_does_not_exist",
                                             command.statement_name))>>
                     /\ session'.portals = session.portals
                ELSE IF BindGetsThrough(command, prepared_statement[1])
                THEN /\ handled'.sent[Len(handled'.sent)] = Ok(BindComplete)
                     /\ command.portal_name \in DOMAIN session'.portals
                     /\ session'.portals[command.portal_name].statement_name
                            = command.statement_name
                     /\ session'.portals[command.portal_name].stmt.kind
                            = prepared_statement[1].stmt.kind
                ELSE /\ Ok(BindComplete) \notin Range(handled'.sent)
                     /\ session'.portals = session.portals
    ]_vars

\* a Bind replaced the portal of the statement "" by one of the statement
\* "s1"
C35_Witness ==
    /\ handled.command[1] = "Bind"
    /\ handled.command[2].statement_name = "s1"
    /\ Ok(BindComplete) \in Range(handled.sent)
    /\ session.portals[""].statement_name = "s1"
    /\ "" \in DOMAIN session.prepared_statements

\* a Bind without parameters of an INSERT with a placeholder failed while
\* the placeholder was substituted: no BindComplete, and the portal stored
\* before is still there
C35_WitnessFailed ==
    /\ handled.command[1] = "Bind"
    /\ handled.command[2] = [portal_name |-> "", statement_name |-> "s1",
                             param_formats |-> <<>>, raw_params |-> <<>>,
                             result_formats |-> <<>>]
    /\ "s1" \in DOMAIN session.prepared_statements
    /\ Ok(BindComplete) \notin Range(handled.sent)
    /\ "" \in DOMAIN session.portals

\* the step is a Parse of an INSERT that was planned and then described
\* after another session had dropped the schema
ParseFindsNoSchema ==
    /\ handled'.command[1] = "Parse"
    /\ handled'.other = OtherDropsSchema
    /\ PlannedInsert(metadata, handled'.command[2])
    /\ describe(DescribedView(metadata, handled'.other),
                pop(parse(handled'.command[2].sql)[2]))
           = Err(schema_does_not_exist(EngineSchema))

\* C34: when a Parse of an INSERT is planned and the analyzer then reports
\* that the schema does not exist, the client is sent schema_does_not_exist
\* with the name of the schema and no prepared statement is stored.
C34_SchemaDoesNotExistIsReported ==
    [][ParseFindsNoSchema =>
        /\ handled'.sent = <<Err(QueryError("schema_does_not_exist", EngineSchema))>>
        /\ session'.prepared_statements = session.prepared_statements
    ]_vars

\* such a Parse was answered with table_does_not_exist("public")
C34_NamedAsTable ==
    /\ handled.command[1] = "Parse"
    /\ handled.other = OtherDropsSchema
    /\ handled.sent = <<Err(QueryError("table_does_not_exist", EngineSchema))>>

(***************************************************************************)
(* Claim about DeleteCommand, checked under SpecCommands                   *)
(***************************************************************************)
\* the step is the execution of a DeleteCommand on the table of the id,
\* which exists, the storage failing no call
DeleteSucceeds(table_id) ==
    /\ data_manager # None
    /\ IsTable(data_manager[1], table_id)
    /\ handled'.command[1] = "DeleteCommand"
    /\ handled'.command[2] = [table_id |-> table_id, fault |-> "none"]
    /\ LET out == DeleteCommand_execute(data_manager[1], disk, table_id, "none")
       IN disk' = out.disk /\ handled'.sent = out.sent

\* C32: a DeleteCommand on a table that exists, when the storage reports no
\* error and nothing else touches the table, sends RecordsDeleted(n) as its
\* one message, n being the number of rows the table held before the
\* command, and leaves the table without rows.
C32_DeleteRemovesEveryRow ==
    [][\A table_id \in FullTableIds(disk) :
          DeleteSucceeds(table_id) =>
              /\ handled'.sent =
                     <<Ok(QueryEventOf("RecordsDeleted",
                              Cardinality(DOMAIN disk.families[table_id[2]])))>>
              /\ table_id[2] \in DOMAIN disk'.families
              /\ DOMAIN disk'.families[table_id[2]] = {}
    ]_vars

\* a DeleteCommand sent RecordsDeleted(2) and the table, which is still
\* there, has no rows
C32_Witness ==
    /\ handled.command[1] = "DeleteCommand"
    /\ handled.command[2].fault = "none"
    /\ handled.sent = <<Ok(QueryEventOf("RecordsDeleted", 2))>>
    /\ handled.command[2].table_id[2] \in DOMAIN disk.families
    /\ DOMAIN disk.families[handled.command[2].table_id[2]] = {}

(***************************************************************************)
(* Claims about calls that run concurrently on one table, checked under    *)
(* SpecBatch                                                               *)
(***************************************************************************)
\* the loop of the call of thread u has run for some of the elements of its
\* batch and not yet for all of them
PartlyApplied(u) ==
    \/ /\ threads[u].op \in {"insert", "update"}
       /\ threads[u].pc = "locked"
       /\ 1 < threads[u].i /\ threads[u].i <= Len(threads[u].data)
    \/ /\ threads[u].pc = "remove"
       /\ 1 < threads[u].i /\ threads[u].i <= Len(threads[u].keys)

\* keys are the packed record ids n, n + 1, ... for some n
ConsecutiveRecordIds(keys) ==
    \E n \in 0..BatchMaxRecordId : keys = [j \in 1..Len(keys) |-> Pack(<<n + j - 1>>)]

\* C37: a batch is applied atomically with respect to readers: select
\* collects its rows only when no insert, update or delete has applied a
\* part of its batch, so that the Cursor holds none of the rows of an
\* insert that has not returned; and the record ids an insert has issued for
\* its batch so far are consecutive, whatever the other threads call.
C37_BatchesAreAtomic ==
    [][/\ \A t \in Threads : CollectsNow(t) => \A u \in Threads : ~PartlyApplied(u)
       /\ \A u \in Threads :
             (threads'[u].op = "insert" /\ threads'[u].pc = "locked") =>
                 /\ Len(threads'[u].keys) = threads'[u].i - 1
                 /\ ConsecutiveRecordIds(threads'[u].keys)
                 /\ \A t \in Threads : \A i \in 1..Len(cursor'[t].rows) :
                       cursor'[t].rows[i][1] \notin Range(threads'[u].keys)
    ]_vars

\* an insert has stored the first of its two values while a select of
\* another thread waits for the lock
C37_Witness ==
    \E t, u \in Threads :
        /\ debug_assertions
        /\ threads[u].op = "insert" /\ PartlyApplied(u)
        /\ Cardinality(DOMAIN table.records) = 1
        /\ threads[t].op = "select" /\ threads[t].pc = "lock"

\* an insert has issued the record ids 1 and 2 for its two values, after an
\* insert of another thread that was called while it ran
C37_WitnessRecordIds ==
    \E t, u \in Threads :
        /\ threads[u].op = "insert" /\ threads[u].pc = "locked"
        /\ threads[u].keys = <<Pack(<<1>>), Pack(<<2>>)>>
        /\ threads[t].calls = 1

\* a select that was called while an insert of two values ran has collected
\* both rows
C37_WitnessAll ==
    \E t, u \in Threads :
        /\ t # u
        /\ threads[u].calls = 1 /\ threads[t].calls = 1
        /\ Len(cursor[t].rows) = 2
        /\ Cardinality(DOMAIN table.records) = 2

(***************************************************************************)
(* Claim about the two builds of the table handle, checked under Spec      *)
(***************************************************************************)
\* what a call leaves to see: the rows a following select returns and the
\* count handed back
Effect(out) == [rows |-> select(out.tbl).rows, n |-> out.n, panicked |-> out.panicked]

\* the call has the same effect with and without debug assertions, whenever
\* no assertion fails
SameEffect(with, without) == ~with.panicked => Effect(without) = Effect(with)

\* C38: every call of insert, update and delete a caller makes stores,
\* replaces and removes the same rows and returns the same count whether or
\* not debug assertions are compiled in, so that the count is matched by the
\* rows a following select shows.
C38_SameEffectInBothBuilds ==
    [][~table.poisoned =>
          /\ \A data \in InsertArgs :
                CallInsert(data) =>
                    SameEffect(insert(table, data, TRUE), insert(table, data, FALSE))
          /\ \A data \in UpdateArgs :
                CallUpdate(data) =>
                    SameEffect(update(table, data, TRUE), update(table, data, FALSE))
          /\ \A data \in DeleteArgs :
                CallDelete(data) =>
                    SameEffect(delete(table, data, TRUE), delete(table, data, FALSE))
    ]_vars

\* the build without debug assertions returned 1 from an insert of one value
\* and the table holds no row
C38_InsertStoredNothing ==
    /\ ~debug_assertions
    /\ ret.op = "insert" /\ ret.n = 1 /\ ~ret.panicked
    /\ select(table).rows = <<>>

\* a table with a row on which update and delete without debug assertions
\* return 1 and leave the row as it was
C38_RowStays ==
    /\ MapIter(table.records) = <<<<Pack(<<0>>), Pack(<<1>>)>>>>
    /\ LET out == update(table, <<<<Pack(<<0>>), Pack(<<2>>)>>>>, FALSE)
       IN out.n = 1 /\ out.tbl.records = table.records
    /\ LET out == delete(table, <<Pack(<<0>>)>>, FALSE)
       IN out.n = 1 /\ out.tbl.records = table.records

(***************************************************************************)
(* Claim about concurrent deletes, checked under SpecConc                  *)
(***************************************************************************)
RowCount(tbl) == Cardinality(DOMAIN tbl.records)

\* thread t counts a key in this step
Counts(t) == threads[t].pc = "remove" /\ threads'[t].size = threads[t].size + 1

\* C39: when deletes run concurrently, with key lists that overlap or not,
\* no delete fails an assertion (a delete panics only on a lock that a
\* failed update has poisoned before), a delete counts a key only in a step
\* in which the row of that key leaves the table, a row leaves the table
\* only in a step in which one delete counts it, and a delete that has
\* finished its loop has counted every key it collected: each row is
\* removed and counted by exactly one call.
C39_ConcurrentDeletesCountOnce ==
    [][/\ \A t \in Threads :
             /\ (threads'[t].op = "delete" /\ ~table.poisoned) =>
                   threads'[t].pc # "panicked"
             /\ Counts(t) =>
                   /\ threads[t].keys[threads[t].i] \in DOMAIN table.records
                   /\ DOMAIN table'.records =
                          DOMAIN table.records \ {threads[t].keys[threads[t].i]}
                   /\ \A u \in Threads \ {t} : ~Counts(u)
             /\ (threads'[t].pc = "remove" /\ threads'[t].i > Len(threads'[t].keys)) =>
                   /\ threads'[t].size = Len(threads'[t].keys)
                   /\ Range(threads'[t].keys) \cap DOMAIN table'.records = {}
       /\ RowCount(table') < RowCount(table) => \E t \in Threads : Counts(t)
    ]_vars

\* two deletes whose key lists share a key run at the same time: one has
\* removed the shared row, the other waits for the lock
C39_Witness ==
    \E t, u \in Threads :
        /\ threads[t].op = "delete" /\ threads[t].pc = "remove" /\ threads[t].size = 1
        /\ threads[u].op = "delete" /\ threads[u].pc = "lock"
        /\ Range(threads[t].data) \cap Range(threads[u].data) # {}
        /\ Range(threads[t].data) \cap Range(threads[u].data) \cap DOMAIN table.records = {}

\* a delete of the keys 0 and 1 has collected and removed the key 1 only,
\* after a delete of another thread, and the table is empty
C39_WitnessSecond ==
    \E t, u \in Threads :
        /\ threads[u].op = "delete" /\ threads[u].pc = "remove"
        /\ threads[u].data = <<Pack(<<0>>), Pack(<<1>>)>>
        /\ threads[u].keys = <<Pack(<<1>>)>> /\ threads[u].size = 1
        /\ threads[t].calls = 1
        /\ RowCount(table) = 0

(***************************************************************************)
(* Claim about concurrent create_schema and create_table, checked under    *)
(* SpecRace                                                                *)
(***************************************************************************)
\* the threads whose create_schema, and whose create_table, returned true
SchemaCreators == {t \in Threads : threads[t].schema_created = Some(TRUE)}
TableCreators == {t \in Threads : threads[t].table_created = Some(Some(TRUE))}

\* the rows select returns from the table, none if the table is not there
RaceRows ==
    IF /\ RaceSchema \in DOMAIN catalog.schemas
       /\ RaceTable \in DOMAIN catalog.schemas[RaceSchema].tables
    THEN select(catalog.schemas[RaceSchema].tables[RaceTable]).rows
    ELSE <<>>

\* C36: of the threads that call create_schema with the same name at the
\* same time at most one is returned true, and exactly one once all have
\* returned; the same for create_table; and the table is never replaced by
\* an empty one: with debug assertions, the rows inserted after create_table
\* returned true are the rows select returns.
C36_OneCreatorWins ==
    /\ Cardinality(SchemaCreators) <= 1
    /\ Cardinality(TableCreators) <= 1
    /\ (\A t \in Threads : threads[t].pc = "done") =>
          Cardinality(SchemaCreators) = 1 /\ Cardinality(TableCreators) = 1
    /\ debug_assertions =>
          [i \in 1..Len(RaceRows) |-> RaceRows[i][2]] = inserted

\* create_table has returned true to two threads for the same name in the
\* same schema, which was created once
C36_BothReturnedTrue ==
    /\ Cardinality(TableCreators) = 2
    /\ Cardinality(SchemaCreators) = 1

\* a row was inserted into the table after create_table had returned true
\* and the table is empty: the create_table of another thread has replaced it
C36_RowsLost ==
    /\ debug_assertions
    /\ Cardinality(SchemaCreators) = 1
    /\ inserted # <<>>
    /\ RaceSchema \in DOMAIN catalog.schemas
    /\ RaceTable \in DOMAIN catalog.schemas[RaceSchema].tables
    /\ RaceRows = <<>>

\* create_schema has returned true to two threads for the same name
C36_BothCreatedSchema == Cardinality(SchemaCreators) = 2
====
